---------------------------- MODULE Spec2Model ----------------------------
(***************************************************************************)
(* A model of the kapibara-transport library: the WebSocket byte-stream    *)
(* adapter (websocket/client.rs, websocket/server.rs), the client connect  *)
(* walk (tcp/client.rs, websocket/client.rs), client construction and the  *)
(* TCP accept loop (tcp/server.rs).                                        *)
(*                                                                         *)
(* Each subsystem has its own specification over its own variables; the    *)
(* variables of the other subsystems stay at their initial values.         *)
(***************************************************************************)
EXTENDS Integers, Sequences, FiniteSets, TLC

(***************************************************************************)
(* Bounds of the model.                                                    *)
(***************************************************************************)
\* inbound items (messages, errors, end of stream) of one receiver
MaxMsgs == 3
\* payload length of one message / one written buffer
MaxLen == 2
\* capacity of a read buffer
MaxCap == 2
\* write calls on one adapter
MaxWrites == 2
\* messages that arrive while the caller writes: the connection carries
\* MaxMsgs messages, MaxWrites of them outbound
DuplexMsgs == MaxMsgs - MaxWrites
\* the echo exchange: rounds, reads per round, capacity of its read buffer
\* (100, 100 and 1024 in websocket/mod.rs)
EchoRounds == 4
EchoReads == 3
EchoCap == 2
\* addresses one lookup returns
MaxAddrs == 2
\* connections that reach one listener
MaxConns == 3
\* longest address sequence given to sort_resolved
MaxSortLen == 3
\* most worker threads of a multi-threaded scheduler
MaxWorkers == 2
\* operations polled on one Empty stream, and the longest buffer given to them
MaxEmptyOps == 3
MaxEmptyLen == 2

VARIABLES
    \* ---- one WebSocket adapter (WebSocketClientStream / WebSocketServerStream)
    ws,         \* the struct: [chunk, rx, tx]
    inbound,    \* history: every item the receiver was given, in arrival order
    out,        \* history: concatenation of the bytes returned by reads
    lastRead,   \* the last poll_read call: [cap, poll, n, polls]
    written,    \* history: the buffers of the completed (Ready(Ok)) writes
    lastWrite,  \* the last poll_write call: [buf, poll, n]
    \* ---- the echo exchange of websocket/mod.rs over one connection
    srv,        \* the handler's WebSocketServerStream
    cli,        \* the client's WebSocketClientStream
    s2c,        \* how many of the server's messages the connection has delivered
    c2s,        \* how many of the client's messages the connection has delivered
    spc,        \* MockServerCallback::handle: [phase, round, k]
    cpc,        \* test_ws_client: [phase, round, k]
    \* ---- client construction and connect (TcpClient, WebSocketClient)
    client,     \* Option of the constructed client: [kind, addrs, tls, server_name]
    initRes,    \* Option of the result of the last init call
    initLog,    \* history of the last init call: [kind, opt, resolves, resolved]
    conn,       \* the connect call in progress: [state, idx, err, attempts, result]
    \* ---- TcpServer::serve
    server,     \* Option of the TcpServer: [tls_acceptor]
    serve,      \* the serve call: [state, cur, result, spawned]
    backlog,    \* the connections waiting in the listener, oldest first
    nconns,     \* how many connections have reached the listener
    lastAccept, \* history: what the last listener.accept() returned
    tasks,      \* the spawned handler tasks, in spawn order: their states
    \* ---- one call of sort_resolved
    sortCall,   \* [state, result, strategy, sorted]
    \* ---- one call of Resolver::resolve or Resolver::block_resolve
    rcall,      \* [state, api, ctx, resolver, port, others, core, rt, task, lookup, result]
    \* ---- the TransportClient facade and the Empty stream
    tclient,    \* Option of the TransportClient: [variant, cli]
    tlog,       \* history of the TransportClient::init call: its option and result
    estream,    \* Option of the result of connect on an Empty client
    ehist       \* history: the operations polled on the Empty stream

wsVars == <<ws, inbound, out, lastRead, written, lastWrite>>
echoVars == <<srv, cli, s2c, c2s, spc, cpc>>
connVars == <<client, initRes, initLog, conn>>
serveVars == <<server, serve, backlog, nconns, lastAccept, tasks>>
sortVars == <<sortCall>>
resolveVars == <<rcall>>
facadeVars == <<tclient, tlog, estream, ehist>>

vars == <<ws, inbound, out, lastRead, written, lastWrite,
          srv, cli, s2c, c2s, spc, cpc,
          client, initRes, initLog, conn,
          server, serve, backlog, nconns, lastAccept, tasks,
          sortCall,
          rcall,
          tclient, tlog, estream, ehist>>

(***************************************************************************)
(* Helpers                                                                 *)
(***************************************************************************)
Min(a, b) == IF a <= b THEN a ELSE b

\* Option<T>: None is the empty sequence, Some(x) the one-element sequence
None == <<>>
Some(x) == <<x>>

\* the first n elements of s / s without its first n elements
Take(s, n) == SubSeq(s, 1, Min(n, Len(s)))
Drop(s, n) == SubSeq(s, Min(n, Len(s)) + 1, Len(s))

RECURSIVE Concat(_)
Concat(ss) == IF ss = <<>> THEN <<>> ELSE Head(ss) \o Concat(Tail(ss))

(***************************************************************************)
(* Messages.  The adapter never inspects payload bytes, so a byte is       *)
(* modelled by its identity <<i, j>>: byte j of the i-th inbound item.     *)
(***************************************************************************)
DataKinds == {"Binary", "Text"}
ControlKinds == {"Ping", "Pong", "Close"}

Payload(i, len) == [j \in 1..len |-> <<i, j>>]

\* the items Stream::poll_next can yield: Some(Ok(msg)), Some(Err(e)), None
Msg(kind, data) == [kind |-> kind, data |-> data]

\* the i-th inbound item, one of each shape the receiver can yield: a Binary
\* message of every length, an empty and a longest Text message, the control
\* messages, an error, the end of the stream
Items(i) ==
    {Msg("Binary", Payload(i, len)) : len \in 0..MaxLen}
        \cup {Msg("Text", Payload(i, len)) : len \in {0, MaxLen}}
        \cup {Msg("Ping", Payload(i, 1)), Msg("Pong", <<>>), Msg("Close", <<>>)}
        \cup {Msg("Error", <<>>), Msg("End", <<>>)}

(***************************************************************************)
(* WebSocketClientStream (websocket/client.rs); WebSocketServerStream      *)
(* (websocket/server.rs) is the same code line for line.                   *)
(*   s.chunk : Option<Bytes>, the undrained bytes of the current message   *)
(*   s.rx    : the items the receiver has ready, oldest first              *)
(*   s.tx    : the sink: the messages handed to it by start_send, in       *)
(*             order, how many of them it has flushed to the connection,   *)
(*             and whether it was closed                                   *)
(***************************************************************************)
new ==
    [chunk |-> None, rx |-> <<>>,
     tx |-> [msgs |-> <<>>, flushed |-> 0, closed |-> FALSE]]

\* a has_chunk that takes a stored chunk for bytes to serve, drained or not
has_chunk_any(s) == s.chunk # None

\* has_chunk, client.rs:135-141
has_chunk(s) == IF s.chunk # None THEN Len(s.chunk[1]) > 0 ELSE FALSE

\* rx.poll_next_unpin: Pending when nothing is ready; the end of stream stays
\* in place (a finished stream keeps reporting None)
rx_poll_next(s) ==
    IF s.rx = <<>> THEN [poll |-> "Pending", s |-> s]
    ELSE IF Head(s.rx).kind = "End" THEN [poll |-> "None", s |-> s]
    ELSE [poll |-> "Some", item |-> Head(s.rx), s |-> [s EXCEPT !.rx = Tail(s.rx)]]

\* a poll_fill_buf that hands out the payload of every data message, empty
\* ones too
RECURSIVE fill_loop_surface_empty(_, _)
fill_loop_surface_empty(s, polls) ==
    IF has_chunk(s)
    THEN [poll |-> "Ready", buf |-> s.chunk[1], s |-> s, polls |-> polls]
    ELSE LET r == rx_poll_next(s) IN
         CASE r.poll = "Pending" ->
                [poll |-> "Pending", buf |-> <<>>, s |-> r.s, polls |-> polls + 1]
           [] r.poll = "None" ->
                [poll |-> "Ready", buf |-> <<>>, s |-> r.s, polls |-> polls + 1]
           [] r.poll = "Some" /\ r.item.kind = "Error" ->
                [poll |-> "Err", buf |-> <<>>, s |-> r.s, polls |-> polls + 1]
           [] r.poll = "Some" /\ r.item.kind \in DataKinds ->
                [poll |-> "Ready", buf |-> r.item.data,
                 s |-> [r.s EXCEPT !.chunk = Some(r.item.data)], polls |-> polls + 1]
           [] OTHER -> fill_loop_surface_empty(r.s, polls + 1)

\* a poll_fill_buf that polls the receiver once and returns Pending when what
\* it got holds no byte to serve
fill_loop_once(s, polls) ==
    IF has_chunk(s)
    THEN [poll |-> "Ready", buf |-> s.chunk[1], s |-> s, polls |-> polls]
    ELSE LET r == rx_poll_next(s) IN
         CASE r.poll = "Pending" ->
                [poll |-> "Pending", buf |-> <<>>, s |-> r.s, polls |-> polls + 1]
           [] r.poll = "None" ->
                [poll |-> "Ready", buf |-> <<>>, s |-> r.s, polls |-> polls + 1]
           [] r.poll = "Some" /\ r.item.kind = "Error" ->
                [poll |-> "Err", buf |-> <<>>, s |-> r.s, polls |-> polls + 1]
           [] r.poll = "Some" /\ r.item.kind \in DataKinds /\ r.item.data # <<>> ->
                [poll |-> "Ready", buf |-> r.item.data,
                 s |-> [r.s EXCEPT !.chunk = Some(r.item.data)], polls |-> polls + 1]
           [] OTHER -> [poll |-> "Pending", buf |-> <<>>, s |-> r.s, polls |-> polls + 1]

\* poll_fill_buf: the loop of client.rs:150-171.  polls counts the calls of
\* rx.poll_next made so far in this call.
RECURSIVE fill_loop(_, _)
fill_loop(s, polls) ==
    IF has_chunk(s)
    THEN [poll |-> "Ready", buf |-> s.chunk[1], s |-> s, polls |-> polls]
    ELSE LET r == rx_poll_next(s) IN
         CASE r.poll = "Pending" ->
                [poll |-> "Pending", buf |-> <<>>, s |-> r.s, polls |-> polls + 1]
           [] r.poll = "None" ->
                [poll |-> "Ready", buf |-> <<>>, s |-> r.s, polls |-> polls + 1]
           [] r.poll = "Some" /\ r.item.kind = "Error" ->
                [poll |-> "Err", buf |-> <<>>, s |-> r.s, polls |-> polls + 1]
           [] r.poll = "Some" /\ r.item.kind \in DataKinds ->
                fill_loop([r.s EXCEPT !.chunk = Some(r.item.data)], polls + 1)
           [] OTHER -> fill_loop(r.s, polls + 1)

\* a poll_fill_buf that fetches the next message on every call, whatever is
\* left of the stored one
poll_fill_buf_refill(s) == fill_loop([s EXCEPT !.chunk = None], 0)

poll_fill_buf(s) == fill_loop(s, 0)

\* a consume that forgets the rest of the chunk
consume_forget(s, amt) == IF amt > 0 THEN [s EXCEPT !.chunk = None] ELSE s

\* consume: Bytes::advance(amt) on the stored chunk; nothing for amt = 0
consume(s, amt) ==
    IF amt > 0
    THEN IF s.chunk # None THEN [s EXCEPT !.chunk = Some(Drop(s.chunk[1], amt))] ELSE s
    ELSE s

\* a poll_read that copies one byte at most
poll_read_one_byte(s, cap) ==
    IF cap = 0 THEN [poll |-> "Ready", data |-> <<>>, s |-> s, polls |-> 0]
    ELSE LET f == poll_fill_buf(s) IN
         IF f.poll # "Ready" THEN [poll |-> f.poll, data |-> <<>>, s |-> f.s, polls |-> f.polls]
         ELSE LET len == Min(Len(f.buf), 1) IN
              [poll |-> "Ready", data |-> Take(f.buf, len), s |-> consume(f.s, len),
               polls |-> f.polls]

\* a poll_read that looks at the receiver before the chunk and fails as soon
\* as an error is ready there
poll_read_eager_err(s, cap) ==
    IF cap = 0 THEN [poll |-> "Ready", data |-> <<>>, s |-> s, polls |-> 0]
    ELSE IF s.rx # <<>> /\ Head(s.rx).kind = "Error"
    THEN [poll |-> "Err", data |-> <<>>, s |-> [s EXCEPT !.rx = Tail(@)], polls |-> 1]
    ELSE LET f == poll_fill_buf(s) IN
         IF f.poll \in {"Pending", "Err"}
         THEN [poll |-> f.poll, data |-> <<>>, s |-> f.s, polls |-> f.polls]
         ELSE LET len == Min(Len(f.buf), cap) IN
              [poll |-> "Ready", data |-> Take(f.buf, len), s |-> consume(f.s, len),
               polls |-> f.polls]

\* poll_read into a buffer with `cap` bytes remaining
poll_read(s, cap) ==
    IF cap = 0 THEN [poll |-> "Ready", data |-> <<>>, s |-> s, polls |-> 0]
    ELSE LET f == poll_fill_buf(s) IN
         IF f.poll = "Pending" THEN [poll |-> "Pending", data |-> <<>>, s |-> f.s, polls |-> f.polls]
         ELSE IF f.poll = "Err" THEN [poll |-> "Err", data |-> <<>>, s |-> f.s, polls |-> f.polls]
         ELSE LET len == Min(Len(f.buf), cap) IN
              [poll |-> "Ready", data |-> Take(f.buf, len), s |-> consume(f.s, len),
               polls |-> f.polls]

\* a poll_write that sends nothing for an empty buffer
poll_write_skip_empty(s, buf, ready, send) ==
    IF ready # "Ready" THEN [poll |-> ready, n |-> 0, s |-> s]
    ELSE IF send # "Ok" THEN [poll |-> "Err", n |-> 0, s |-> s]
    ELSE [poll |-> "Ready", n |-> Len(buf),
          s |-> IF buf = <<>> THEN s ELSE [s EXCEPT !.tx.msgs = Append(@, Msg("Binary", buf))]]

\* a poll_write that hands the message to the sink before it asks whether the
\* sink is ready
poll_write_send_first(s, buf, ready, send) ==
    LET sent == [s EXCEPT !.tx.msgs = Append(@, Msg("Binary", buf))] IN
    IF ready # "Ready" THEN [poll |-> ready, n |-> 0, s |-> sent]
    ELSE IF send # "Ok" THEN [poll |-> "Err", n |-> 0, s |-> s]
    ELSE [poll |-> "Ready", n |-> Len(buf), s |-> sent]

\* a poll_write whose message overtakes the messages already in the sink
poll_write_overtake(s, buf, ready, send) ==
    IF ready # "Ready" THEN [poll |-> ready, n |-> 0, s |-> s]
    ELSE IF send # "Ok" THEN [poll |-> "Err", n |-> 0, s |-> s]
    ELSE [poll |-> "Ready", n |-> Len(buf),
          s |-> [s EXCEPT !.tx.msgs = <<Msg("Binary", buf)>> \o @]]

\* poll_write: `ready` is the outcome of tx.poll_ready, `send` of tx.start_send
poll_write(s, buf, ready, send) ==
    IF ready = "Pending" THEN [poll |-> "Pending", n |-> 0, s |-> s]
    ELSE IF ready = "Err" THEN [poll |-> "Err", n |-> 0, s |-> s]
    ELSE IF send = "Ok"
         THEN [poll |-> "Ready", n |-> Len(buf),
               s |-> [s EXCEPT !.tx.msgs = Append(@, Msg("Binary", buf))]]
         ELSE [poll |-> "Err", n |-> 0, s |-> s]

\* a poll_flush that reports what the sink reports without flushing it
poll_flush_noop(s, flush) == [poll |-> flush, s |-> s]

\* poll_flush: `flush` is the outcome of tx.poll_flush; a flush that completes
\* has put every message handed to the sink on the connection
poll_flush(s, flush) ==
    IF flush = "Ready"
    THEN [poll |-> "Ready", s |-> [s EXCEPT !.tx.flushed = Len(s.tx.msgs)]]
    ELSE [poll |-> flush, s |-> s]

\* poll_shutdown: `close` is the outcome of tx.poll_close; a close that
\* completes has flushed the sink and closed it
poll_shutdown(s, close) ==
    IF close = "Ready"
    THEN [poll |-> "Ready",
          s |-> [s EXCEPT !.tx.flushed = Len(s.tx.msgs), !.tx.closed = TRUE]]
    ELSE [poll |-> close, s |-> s]

(***************************************************************************)
(* Spec: one adapter, its peer and its caller.                             *)
(***************************************************************************)
NoRead == [cap |-> 0, poll |-> "None", n |-> 0, polls |-> 0]
NoWrite == [buf |-> <<>>, poll |-> "None", n |-> 0]

InitWs ==
    /\ ws = new
    /\ inbound = <<>>
    /\ out = <<>>
    /\ lastRead = NoRead
    /\ written = <<>>
    /\ lastWrite = NoWrite

(***************************************************************************)
(* The echo exchange of websocket/mod.rs: the server handler and the       *)
(* client, each on its own task, over one healthy connection.              *)
(***************************************************************************)
\* WebSocketServerStream (websocket/server.rs:134-214) is
\* WebSocketClientStream line for line
server_poll_read(s, cap) == poll_read(s, cap)
server_poll_write(s, buf, ready, send) == poll_write(s, buf, ready, send)
server_poll_flush(s, flush) == poll_flush(s, flush)

EchoLen == EchoReads * EchoCap
Repeat(b, n) == [j \in 1..n |-> b]

Pc(phase, round, k) == [phase |-> phase, round |-> round, k |-> k]

InitEcho ==
    /\ srv = new
    /\ cli = new
    /\ s2c = 0
    /\ c2s = 0
    /\ spc = Pc("write", 1, 0)
    /\ cpc = Pc("read", 1, 0)

\* what a healthy sink answers
SinkHealthy == {"Ready", "Pending"}

\* stream.read(&mut buf).await.unwrap() followed by the assert_eq! on the
\* bytes read: the next position of a task after a poll_read
AfterRead(pc, r, byte, next) ==
    IF r.poll = "Pending" THEN pc
    ELSE IF r.poll = "Err" \/ r.data # Repeat(byte, EchoCap) THEN Pc("panic", pc.round, pc.k)
    ELSE IF pc.k + 1 < EchoReads THEN Pc("read", pc.round, pc.k + 1)
    ELSE next

\* handle, mod.rs:39: stream.write(&b"f".repeat(1024 * 100)).await.unwrap()
ServerWrite ==
    /\ spc.phase = "write"
    /\ \E ready \in SinkHealthy :
          LET w == server_poll_write(srv, Repeat("f", EchoLen), ready, "Ok") IN
          /\ srv' = w.s
          /\ spc' = IF w.poll = "Ready" THEN Pc("flush", spc.round, 0) ELSE spc
    /\ UNCHANGED <<cli, s2c, c2s, cpc>>
    /\ UNCHANGED <<wsVars, connVars, serveVars, sortVars, resolveVars, facadeVars>>

\* handle, mod.rs:40: let _ = stream.flush().await
ServerFlush ==
    /\ spc.phase = "flush"
    /\ \E flush \in SinkHealthy :
          LET f == server_poll_flush(srv, flush) IN
          /\ srv' = f.s
          /\ spc' = IF f.poll = "Ready" THEN Pc("read", spc.round, 0) ELSE spc
    /\ UNCHANGED <<cli, s2c, c2s, cpc>>
    /\ UNCHANGED <<wsVars, connVars, serveVars, sortVars, resolveVars, facadeVars>>

\* handle, mod.rs:41-44: the inner loop of reads
ServerRead ==
    /\ spc.phase = "read"
    /\ LET r == server_poll_read(srv, EchoCap) IN
       /\ srv' = r.s
       /\ spc' = AfterRead(spc, r, "k",
                           IF spc.round < EchoRounds THEN Pc("write", spc.round + 1, 0)
                           ELSE Pc("done", spc.round, 0))
    /\ UNCHANGED <<cli, s2c, c2s, cpc>>
    /\ UNCHANGED <<wsVars, connVars, serveVars, sortVars, resolveVars, facadeVars>>

\* test_ws_client, mod.rs:92-95: the inner loop of reads
ClientRead ==
    /\ cpc.phase = "read"
    /\ LET r == poll_read(cli, EchoCap) IN
       /\ cli' = r.s
       /\ cpc' = AfterRead(cpc, r, "f", Pc("write", cpc.round, 0))
    /\ UNCHANGED <<srv, s2c, c2s, spc>>
    /\ UNCHANGED <<wsVars, connVars, serveVars, sortVars, resolveVars, facadeVars>>

\* test_ws_client, mod.rs:96: ws_stream.write(&b"k".repeat(1024 * 100)).await.unwrap()
ClientWrite ==
    /\ cpc.phase = "write"
    /\ \E ready \in SinkHealthy :
          LET w == poll_write(cli, Repeat("k", EchoLen), ready, "Ok") IN
          /\ cli' = w.s
          /\ cpc' = IF w.poll = "Ready" THEN Pc("flush", cpc.round, 0) ELSE cpc
    /\ UNCHANGED <<srv, s2c, c2s, spc>>
    /\ UNCHANGED <<wsVars, connVars, serveVars, sortVars, resolveVars, facadeVars>>

\* test_ws_client, mod.rs:97: let _ = ws_stream.flush().await
ClientFlush ==
    /\ cpc.phase = "flush"
    /\ \E flush \in SinkHealthy :
          LET f == poll_flush(cli, flush) IN
          /\ cli' = f.s
          /\ cpc' = IF f.poll # "Ready" THEN cpc
                    ELSE IF cpc.round < EchoRounds THEN Pc("read", cpc.round + 1, 0)
                    ELSE Pc("done", cpc.round, 0)
    /\ UNCHANGED <<srv, s2c, c2s, spc>>
    /\ UNCHANGED <<wsVars, connVars, serveVars, sortVars, resolveVars, facadeVars>>

\* the connection delivers the next flushed message of the server to the client
DeliverToClient ==
    /\ s2c < srv.tx.flushed
    /\ s2c' = s2c + 1
    /\ cli' = [cli EXCEPT !.rx = Append(@, srv.tx.msgs[s2c + 1])]
    /\ UNCHANGED <<srv, c2s, spc, cpc>>
    /\ UNCHANGED <<wsVars, connVars, serveVars, sortVars, resolveVars, facadeVars>>

\* the connection delivers the next flushed message of the client to the server
DeliverToServer ==
    /\ c2s < cli.tx.flushed
    /\ c2s' = c2s + 1
    /\ srv' = [srv EXCEPT !.rx = Append(@, cli.tx.msgs[c2s + 1])]
    /\ UNCHANGED <<cli, s2c, spc, cpc>>
    /\ UNCHANGED <<wsVars, connVars, serveVars, sortVars, resolveVars, facadeVars>>

\* a sink may put a message on the connection before it is asked to flush
ServerSinkDrain ==
    /\ srv.tx.flushed < Len(srv.tx.msgs)
    /\ srv' = [srv EXCEPT !.tx.flushed = @ + 1]
    /\ UNCHANGED <<cli, s2c, c2s, spc, cpc>>
    /\ UNCHANGED <<wsVars, connVars, serveVars, sortVars, resolveVars, facadeVars>>

ClientSinkDrain ==
    /\ cli.tx.flushed < Len(cli.tx.msgs)
    /\ cli' = [cli EXCEPT !.tx.flushed = @ + 1]
    /\ UNCHANGED <<srv, s2c, c2s, spc, cpc>>
    /\ UNCHANGED <<wsVars, connVars, serveVars, sortVars, resolveVars, facadeVars>>

NextEcho ==
    \/ ServerWrite \/ ServerFlush \/ ServerRead
    \/ ClientRead \/ ClientWrite \/ ClientFlush
    \/ ServerSinkDrain \/ ClientSinkDrain
    \/ DeliverToClient \/ DeliverToServer

Ended == inbound # <<>> /\ inbound[Len(inbound)].kind = "End"

\* the peer sends a message, the connection fails, or the peer closes
Arrive ==
    /\ Len(inbound) < MaxMsgs
    /\ ~Ended
    /\ \E m \in Items(Len(inbound) + 1) :
          /\ inbound' = Append(inbound, m)
          /\ ws' = [ws EXCEPT !.rx = Append(@, m)]
    /\ UNCHANGED <<out, lastRead, written, lastWrite>>
    /\ UNCHANGED <<echoVars, connVars, serveVars, sortVars, resolveVars, facadeVars>>

\* the caller polls a read with a buffer of capacity cap
Read ==
    \E cap \in 0..MaxCap :
        LET r == poll_read(ws, cap) IN
        /\ ws' = r.s
        /\ out' = out \o r.data
        /\ lastRead' = [cap |-> cap, poll |-> r.poll, n |-> Len(r.data), polls |-> r.polls]
        /\ UNCHANGED <<inbound, written, lastWrite>>
        /\ UNCHANGED <<echoVars, connVars, serveVars, sortVars, resolveVars, facadeVars>>

\* what the sink can answer to poll_ready, poll_flush and poll_close: a closed
\* sink refuses
SinkReady(s) == IF s.tx.closed THEN {"Err"} ELSE {"Ready", "Pending", "Err"}

\* the caller polls a write of a buffer; the sink answers as it pleases
Write ==
    /\ Len(written) < MaxWrites
    /\ \E len \in 0..MaxLen, ready \in SinkReady(ws), send \in {"Ok", "Err"} :
          LET buf == Payload(-(Len(written) + 1), len)
              w == poll_write(ws, buf, ready, send) IN
          /\ ws' = w.s
          /\ lastWrite' = [buf |-> buf, poll |-> w.poll, n |-> w.n]
          /\ written' = IF w.poll = "Ready" THEN Append(written, buf) ELSE written
    /\ UNCHANGED <<inbound, out, lastRead>>
    /\ UNCHANGED <<echoVars, connVars, serveVars, sortVars, resolveVars, facadeVars>>

\* The read half (rx, chunk) and the write half (tx) of the adapter are split
\* at construction (client.rs:126-133) and no operation touches both: Spec
\* explores the read half, SpecWrite the write half.
NextWs == Arrive \/ Read

\* the caller polls a flush
Flush ==
    /\ \E flush \in SinkReady(ws) : ws' = poll_flush(ws, flush).s
    /\ UNCHANGED <<inbound, out, lastRead, written, lastWrite>>
    /\ UNCHANGED <<echoVars, connVars, serveVars, sortVars, resolveVars, facadeVars>>

\* the caller polls a shutdown
Shutdown ==
    /\ \E close \in SinkReady(ws) : ws' = poll_shutdown(ws, close).s
    /\ UNCHANGED <<inbound, out, lastRead, written, lastWrite>>
    /\ UNCHANGED <<echoVars, connVars, serveVars, sortVars, resolveVars, facadeVars>>

NextWrite == Write \/ Flush \/ Shutdown

\* the peer sends while the caller writes: at most DuplexMsgs messages arrive
DuplexArrive == Len(inbound) < DuplexMsgs /\ Arrive

\* the caller drops a read future, polled or not (a select! branch that lost,
\* a timeout).  The future borrows the adapter; chunk and rx are fields of the
\* adapter (client.rs:119-123) and stay as the last poll left them.
ReadCancel ==
    /\ lastRead.poll # "Dropped"
    /\ lastRead' = [cap |-> 0, poll |-> "Dropped", n |-> 0, polls |-> 0]
    /\ UNCHANGED <<ws, inbound, out, written, lastWrite>>
    /\ UNCHANGED <<echoVars, connVars, serveVars, sortVars, resolveVars, facadeVars>>

\* both halves of one adapter, polled in any interleaving
NextDuplex == DuplexArrive \/ Read \/ ReadCancel \/ Write \/ Flush \/ Shutdown



(***************************************************************************)
(* Results and errors (error.rs, dns/error.rs).  A result is               *)
(* [ok, tag, what, at]: for Ok the tag is the variant of the value, for    *)
(* Err the variant of ClientError; `at` is the position in the address     *)
(* list of the address the value or the error belongs to (0: none).        *)
(***************************************************************************)
Ok(tag, at) == [ok |-> TRUE, tag |-> tag, what |-> "", at |-> at]
Err(tag, what, at) == [ok |-> FALSE, tag |-> tag, what |-> what, at |-> at]

(***************************************************************************)
(* The resolver (dns/resolver.rs, dns/option.rs).                          *)
(***************************************************************************)
Strategies == {"Ipv4Only", "Ipv6Only", "Ipv4AndIpv6", "Ipv6ThenIpv4", "Ipv4ThenIpv6"}
Variants == {"Default", "System", "Custom"}

\* IP addresses: two of each family
Ips == {[fam |-> f, n |-> n] : f \in {"v4", "v6"}, n \in 1..2}
Ports == {443}

SocketAddr(ip, port) == [ip |-> ip, port |-> port]
is_ipv4(a) == a.ip.fam = "v4"
is_ipv6(a) == a.ip.fam = "v6"
not_ipv4(a) == ~is_ipv4(a)
not_ipv6(a) == ~is_ipv6(a)

\* a sort_resolved whose Ipv6Only does not filter
sort_resolved_no_filter(result, strategy) ==
    CASE strategy = "Ipv4AndIpv6" -> result
      [] strategy = "Ipv4Only" -> SelectSeq(result, is_ipv4)
      [] strategy = "Ipv6Only" -> result
      [] strategy = "Ipv4ThenIpv6" -> SelectSeq(result, is_ipv4) \o SelectSeq(result, not_ipv4)
      [] strategy = "Ipv6ThenIpv4" -> SelectSeq(result, is_ipv6) \o SelectSeq(result, not_ipv6)

\* a sort_resolved whose Ipv6ThenIpv4 partitions on is_ipv4
sort_resolved_v4_first(result, strategy) ==
    CASE strategy = "Ipv4AndIpv6" -> result
      [] strategy = "Ipv4Only" -> SelectSeq(result, is_ipv4)
      [] strategy = "Ipv6Only" -> SelectSeq(result, is_ipv6)
      [] strategy = "Ipv4ThenIpv6" -> SelectSeq(result, is_ipv4) \o SelectSeq(result, not_ipv4)
      [] strategy = "Ipv6ThenIpv4" -> SelectSeq(result, is_ipv4) \o SelectSeq(result, not_ipv4)

\* sort_resolved: filter, or partition (matching first, keeping the order)
sort_resolved(result, strategy) ==
    CASE strategy = "Ipv4AndIpv6" -> result
      [] strategy = "Ipv4Only" -> SelectSeq(result, is_ipv4)
      [] strategy = "Ipv6Only" -> SelectSeq(result, is_ipv6)
      [] strategy = "Ipv4ThenIpv6" -> SelectSeq(result, is_ipv4) \o SelectSeq(result, not_ipv4)
      [] strategy = "Ipv6ThenIpv4" -> SelectSeq(result, is_ipv6) \o SelectSeq(result, not_ipv6)

\* the sequences of at most n elements of S
RECURSIVE Lists(_, _)
Lists(S, n) ==
    IF n = 0 THEN {<<>>}
    ELSE LET shorter == Lists(S, n - 1) IN
         shorter \cup {Append(l, x) : l \in {m \in shorter : Len(m) = n - 1},
                                       x \in S} 

NoRepeat(l) == \A i, j \in 1..Len(l) : i # j => l[i] # l[j]
LookupLists == {l \in Lists(Ips, MaxAddrs) : l # <<>> /\ NoRepeat(l)}

\* what the lookup behind a resolver can do: [res, ips].  A lookup that the
\* timeout overtakes ("timeout") is dropped with whatever addresses it had
\* gathered or was about to return.
Lookups(variant) ==
    {[res |-> "ok", ips |-> l] : l \in LookupLists}
        \cup (IF variant = "Default"
              THEN {[res |-> "timeout", ips |-> l] : l \in LookupLists \cup {<<>>}}
                       \cup {[res |-> "io", ips |-> <<>>]}
              ELSE {[res |-> "join", ips |-> <<>>], [res |-> "resolve", ips |-> <<>>]})

WithPort(ips, port) == [i \in 1..Len(ips) |-> SocketAddr(ips[i], port)]

\* a resolve that returns what the lookup had when the timeout elapsed
resolve_stale_on_timeout(resolver, port, lookup) ==
    IF resolver.variant = "Default"
    THEN CASE lookup.res = "io" -> [res |-> "Io", addrs |-> <<>>]
           [] lookup.res = "timeout" /\ lookup.ips = <<>> -> [res |-> "Timeout", addrs |-> <<>>]
           [] OTHER -> [res |-> "ok",
                        addrs |-> sort_resolved(WithPort(lookup.ips, port), resolver.strategy)]
    ELSE CASE lookup.res = "join" -> [res |-> "Initialize", addrs |-> <<>>]
           [] lookup.res = "resolve" -> [res |-> "Resolve", addrs |-> <<>>]
           [] OTHER -> [res |-> "ok", addrs |-> WithPort(lookup.ips, port)]

\* Resolver::resolve: [res, addrs], res = "ok" or the ResolveError variant
resolve(resolver, port, lookup) ==
    IF resolver.variant = "Default"
    THEN CASE lookup.res = "timeout" -> [res |-> "Timeout", addrs |-> <<>>]
           [] lookup.res = "io" -> [res |-> "Io", addrs |-> <<>>]
           [] OTHER -> [res |-> "ok",
                        addrs |-> sort_resolved(WithPort(lookup.ips, port), resolver.strategy)]
    ELSE CASE lookup.res = "join" -> [res |-> "Initialize", addrs |-> <<>>]
           [] lookup.res = "resolve" -> [res |-> "Resolve", addrs |-> <<>>]
           [] OTHER -> [res |-> "ok", addrs |-> WithPort(lookup.ips, port)]

\* Resolver::block_resolve: on the current runtime, or on a fresh
\* current-thread runtime, whose construction may fail
Runtimes == {"current", "fresh", "build_failed"}
block_resolve(resolver, port, lookup, rt) ==
    IF rt = "build_failed" THEN [res |-> "Initialize", addrs |-> <<>>]
    ELSE resolve(resolver, port, lookup)

(***************************************************************************)
(* Client construction (tcp/client.rs:26-63, websocket/client.rs:42-82).   *)
(*   opt     : [addr, port], addr = [lit, ip] for an IP literal and        *)
(*             [lit, name] for anything else                               *)
(*   tls_opt : Option of [server_name]                                     *)
(* An init yields [res, client, resolves, resolved]: the result, the       *)
(* client if any, how often block_resolve was called and what it gave.     *)
(***************************************************************************)
HostNames == {"host.example"}
ServerNames == {"", "sni.example", "not a name"}
Addrs == {[lit |-> TRUE, ip |-> [fam |-> "v4", n |-> 1], name |-> "10.0.0.1"]}
             \cup {[lit |-> FALSE, ip |-> [fam |-> "v4", n |-> 0], name |-> h] : h \in HostNames}
TlsClientOptions == {None} \cup {Some([server_name |-> n]) : n \in ServerNames}

IpAddr_from_str(addr) == IF addr.lit THEN Some(addr.ip) ELSE None

\* ServerName::try_from: a DNS name or an IP literal
ServerName_try_from(name) == name \in HostNames \cup {"sni.example", "10.0.0.1"}

NoResolve == [res |-> "none", addrs |-> <<>>]
InitFail(e, n, r) == [res |-> e, client |-> None, resolves |-> n, resolved |-> r]

\* an init that asks the resolver about every address, IP literals too
init_addrs_always_resolve(opt, resolver, lookup, rt) ==
    LET r == block_resolve(resolver, opt.port, lookup, rt) IN
    [res |-> r.res, addrs |-> r.addrs, resolves |-> 1, resolved |-> r]

\* the address list of init: the literal, or what block_resolve gives
init_addrs(opt, resolver, lookup, rt) ==
    IF IpAddr_from_str(opt.addr) # None
    THEN [res |-> "ok", addrs |-> <<SocketAddr(IpAddr_from_str(opt.addr)[1], opt.port)>>,
          resolves |-> 0, resolved |-> NoResolve]
    ELSE LET r == block_resolve(resolver, opt.port, lookup, rt) IN
         [res |-> r.res, addrs |-> r.addrs, resolves |-> 1, resolved |-> r]

\* TcpClient::init
TcpClient_init(opt, tls_opt, resolver, lookup, rt) ==
    LET server_name ==
            IF tls_opt = None THEN ""
            ELSE IF tls_opt[1].server_name = "" THEN opt.addr.name
            ELSE tls_opt[1].server_name
        a == init_addrs(opt, resolver, lookup, rt) IN
    IF tls_opt # None /\ ~ServerName_try_from(server_name)
    THEN InitFail(Err("Option", "invalid server name", 0), 0, NoResolve)
    ELSE IF a.res # "ok" THEN InitFail(Err("Dns", a.res, 0), a.resolves, a.resolved)
    ELSE IF a.addrs = <<>>
    THEN InitFail(Err("Option", "unknown address", 0), a.resolves, a.resolved)
    ELSE [res |-> Ok("Tcp", 0),
          client |-> Some([kind |-> "Tcp", addrs |-> a.addrs, tls |-> tls_opt # None,
                           server_name |-> server_name]),
          resolves |-> a.resolves, resolved |-> a.resolved]

\* the host of the URI that WebSocketClient::init builds with
\* authority(format!("{}:{}", opt.addr, opt.port)) and that connect gives to
\* client_async_tls_with_config, which takes the TLS server name from it
uri_host(opt) == opt.addr.name

\* WebSocketClient::init; uri_ok: whether Uri::builder()...build() succeeds
WebSocketClient_init(opt, tls_opt, resolver, lookup, rt, uri_ok) ==
    LET a == init_addrs(opt, resolver, lookup, rt) IN
    IF ~uri_ok THEN InitFail(Err("Option", "invalid uri", 0), 0, NoResolve)
    ELSE IF a.res # "ok" THEN InitFail(Err("Dns", a.res, 0), a.resolves, a.resolved)
    ELSE [res |-> Ok("Ws", 0),
          client |-> Some([kind |-> "Ws", addrs |-> a.addrs, tls |-> tls_opt # None,
                           server_name |-> IF tls_opt = None THEN "" ELSE uri_host(opt)]),
          resolves |-> a.resolves, resolved |-> a.resolved]

(***************************************************************************)
(* connect (tcp/client.rs:69-95, websocket/client.rs:88-116): the walk     *)
(* over the address list, one step per await.                              *)
(*   k.state    : "idle", "walk" (about to connect to address idx),        *)
(*                "handshake" (TCP connected to address idx), "done"       *)
(*   k.err      : the local `err`                                          *)
(*   k.attempts : history: the TCP connects attempted, [at, ok]            *)
(*   k.result   : Option of the value returned                             *)
(***************************************************************************)
ConnIdle == [state |-> "idle", idx |-> 0, err |-> None, attempts |-> <<>>, result |-> None]
ConnStart == [ConnIdle EXCEPT !.state = "walk", !.idx = 1]

Attempt(k, tcp_ok) == Append(k.attempts, [at |-> k.idx, ok |-> tcp_ok])
Return(k, r) == [k EXCEPT !.state = "done", !.result = Some(r)]

\* a walk that gives up at the first refused address
TcpClient_connect_no_fallback(c, k, tcp_ok) ==
    LET k1 == [k EXCEPT !.attempts = Attempt(k, tcp_ok)] IN
    IF tcp_ok THEN IF c.tls THEN [k1 EXCEPT !.state = "handshake"]
                   ELSE Return(k1, Ok("Raw", k.idx))
    ELSE Return(k1, Err("Io", "connect", k.idx))

\* a walk that remembers the first error instead of the last
TcpClient_connect_first_err(c, k, tcp_ok) ==
    LET k1 == [k EXCEPT !.attempts = Attempt(k, tcp_ok)] IN
    IF tcp_ok THEN IF c.tls THEN [k1 EXCEPT !.state = "handshake"]
                   ELSE Return(k1, Ok("Raw", k.idx))
    ELSE [k1 EXCEPT !.err = IF k.err = None THEN Some(Err("Io", "connect", k.idx)) ELSE k.err,
                    !.idx = k.idx + 1]

\* TcpClient::connect, the match on TokioTcpStream::connect(addr).await
TcpClient_connect_tcp(c, k, tcp_ok) ==
    LET k1 == [k EXCEPT !.attempts = Attempt(k, tcp_ok)] IN
    IF tcp_ok THEN IF c.tls THEN [k1 EXCEPT !.state = "handshake"]
                   ELSE Return(k1, Ok("Raw", k.idx))
    ELSE [k1 EXCEPT !.err = Some(Err("Io", "connect", k.idx)), !.idx = k.idx + 1]

\* a connect that remembers a failed TLS handshake like a refused address and
\* goes on to the next address
TcpClient_connect_tls_fallback(c, k, hs_ok) ==
    IF hs_ok THEN Return(k, Ok("Tls", k.idx))
    ELSE [k EXCEPT !.state = "walk", !.err = Some(Err("Io", "tls handshake", k.idx)),
                   !.idx = k.idx + 1]

\* TcpClient::connect, tls_conn.connect(server_name.clone(), s).await?
TcpClient_connect_tls(c, k, hs_ok) ==
    IF hs_ok THEN Return(k, Ok("Tls", k.idx)) ELSE Return(k, Err("Io", "tls handshake", k.idx))

\* WebSocketClient::connect, the match on TcpStream::connect(addr).await
WebSocketClient_connect_tcp(c, k, tcp_ok) ==
    LET k1 == [k EXCEPT !.attempts = Attempt(k, tcp_ok)] IN
    IF tcp_ok THEN [k1 EXCEPT !.state = "handshake"]
    ELSE [k1 EXCEPT !.err = Some(Err("Io", "connect", k.idx)), !.idx = k.idx + 1]

\* a connect that goes on to the next address when the handshake fails
WebSocketClient_connect_handshake_fallback(c, k, hs_ok) ==
    IF hs_ok THEN Return(k, Ok("Ws", k.idx))
    ELSE [k EXCEPT !.state = "walk", !.err = Some(Err("Connect", "handshake", k.idx)),
                   !.idx = k.idx + 1]

\* WebSocketClient::connect, client_async_tls_with_config(..).await.map_err(..)?
WebSocketClient_connect_handshake(c, k, hs_ok) ==
    IF hs_ok THEN Return(k, Ok("Ws", k.idx)) ELSE Return(k, Err("Connect", "handshake", k.idx))

\* a connect that has no error of its own for an empty list
connect_end_no_empty(k) ==
    IF k.err # None THEN Return(k, k.err[1]) ELSE Return(k, Err("Io", "connect", 0))

\* both connects, after the loop
connect_end(k) ==
    IF k.err # None THEN Return(k, k.err[1]) ELSE Return(k, Err("Dns", "EmptyResolved", 0))

NoInit == [kind |-> "none", opt |-> None, resolves |-> 0, resolved |-> NoResolve]

InitConn ==
    /\ client = None
    /\ initRes = None
    /\ initLog = NoInit
    /\ conn = ConnIdle

\* TcpClient::init / WebSocketClient::init on some options, with some resolver:
\* the one construction of this client
ClientInit ==
    /\ initRes = None
    /\ \E kind \in {"Tcp", "Ws"}, addr \in Addrs, port \in Ports, tls_opt \in TlsClientOptions,
          variant \in Variants, strategy \in Strategies, rt \in Runtimes, uri_ok \in BOOLEAN :
          \E lookup \in Lookups(variant) :
             LET opt == [addr |-> addr, port |-> port]
                 resolver == [variant |-> variant, strategy |-> strategy]
                 i == IF kind = "Tcp" THEN TcpClient_init(opt, tls_opt, resolver, lookup, rt)
                      ELSE WebSocketClient_init(opt, tls_opt, resolver, lookup, rt, uri_ok) IN
             /\ client' = i.client
             /\ initRes' = Some(i.res)
             /\ initLog' = [kind |-> kind, opt |-> Some(opt), resolves |-> i.resolves,
                             resolved |-> i.resolved]
    /\ conn' = ConnIdle
    /\ UNCHANGED <<wsVars, echoVars, serveVars, sortVars, resolveVars, facadeVars>>

\* connect() is called
ConnectCall ==
    /\ client # None
    /\ conn.state \in {"idle", "done"}
    /\ conn' = ConnStart
    /\ UNCHANGED <<client, initRes, initLog, wsVars, echoVars, serveVars, sortVars, resolveVars, facadeVars>>

\* the TCP connect to the next address completes
ConnectTcp ==
    /\ conn.state = "walk"
    /\ conn.idx <= Len(client[1].addrs)
    /\ \E tcp_ok \in BOOLEAN :
          conn' = IF client[1].kind = "Tcp"
                  THEN TcpClient_connect_tcp(client[1], conn, tcp_ok)
                  ELSE WebSocketClient_connect_tcp(client[1], conn, tcp_ok)
    /\ UNCHANGED <<client, initRes, initLog, wsVars, echoVars, serveVars, sortVars, resolveVars, facadeVars>>

\* the TLS / WebSocket handshake on the connected socket completes
ConnectHandshake ==
    /\ conn.state = "handshake"
    /\ \E hs_ok \in BOOLEAN :
          conn' = IF client[1].kind = "Tcp"
                  THEN TcpClient_connect_tls(client[1], conn, hs_ok)
                  ELSE WebSocketClient_connect_handshake(client[1], conn, hs_ok)
    /\ UNCHANGED <<client, initRes, initLog, wsVars, echoVars, serveVars, sortVars, resolveVars, facadeVars>>

\* the list is exhausted
ConnectEnd ==
    /\ conn.state = "walk"
    /\ conn.idx > Len(client[1].addrs)
    /\ conn' = connect_end(conn)
    /\ UNCHANGED <<client, initRes, initLog, wsVars, echoVars, serveVars, sortVars, resolveVars, facadeVars>>

NextConnect == ClientInit \/ ConnectCall \/ ConnectTcp \/ ConnectHandshake \/ ConnectEnd

(***************************************************************************)
(* TcpServer::serve (tcp/server.rs:43-81) and ServerError::is_closed       *)
(* (error.rs:33-47).                                                       *)
(*   v.state   : "new" (serve not called), "accept" (in listener.accept()),*)
(*               "handshake" (in acceptor.accept(s)), "returned"           *)
(*   v.cur     : Option of the connection whose TLS handshake is awaited   *)
(*   v.result  : Option of the error serve returned                        *)
(*   v.spawned : history: the handle invocations spawned, in order,        *)
(*               [id, stream, addr]                                        *)
(* A connection is [id, tls]: tls is how its TLS handshake ends on a TLS   *)
(* server ("ok", "fail", or "hang": the peer never finishes it), "none" on *)
(* a server without TLS.  Its peer address is its id.                      *)
(***************************************************************************)
ClosedKinds ==
    {"UnexpectedEof", "ConnectionAborted", "NotConnected", "BrokenPipe", "ConnectionReset"}
\* the kinds of std::io::Error an accept can fail with: the five above and some others
ErrorKinds == ClosedKinds \cup {"WouldBlock", "TimedOut", "Other"}

ServerErrorIo(kind) == [tag |-> "Io", kind |-> kind]

\* an is_closed that does not know ConnectionReset
is_closed_without_reset(err) ==
    IF err.tag = "Io"
    THEN err.kind \in {"UnexpectedEof", "ConnectionAborted", "NotConnected", "BrokenPipe"}
    ELSE FALSE

\* ServerError::is_closed
is_closed(err) ==
    IF err.tag = "Io"
    THEN CASE err.kind = "UnexpectedEof" -> TRUE
           [] err.kind = "ConnectionAborted" -> TRUE
           [] err.kind = "NotConnected" -> TRUE
           [] err.kind = "BrokenPipe" -> TRUE
           [] err.kind = "ConnectionReset" -> TRUE
           [] OTHER -> FALSE
    ELSE FALSE

\* detached: the handler tasks as they stood when the serve future was dropped
ServeNew ==
    [state |-> "new", cur |-> None, result |-> None, spawned |-> <<>>, detached |-> <<>>]

\* serve that awaits the handler in the accept loop instead of spawning it
serve_spawn_inline(v, c, stream) ==
    [v EXCEPT !.state = "handle", !.cur = None,
              !.spawned = Append(@, [id |-> c.id, stream |-> stream, addr |-> Some(c.id)])]

\* serve that spawns the handler of a connection twice
serve_spawn_twice(v, c, stream) ==
    [v EXCEPT !.state = "accept", !.cur = None,
              !.spawned = @ \o <<[id |-> c.id, stream |-> stream, addr |-> Some(c.id)],
                                 [id |-> c.id, stream |-> stream, addr |-> Some(c.id)]>>]

\* serve that spawns the handler of a connection ahead of the handlers spawned
\* before it
serve_spawn_ahead(v, c, stream) ==
    [v EXCEPT !.state = "accept", !.cur = None,
              !.spawned = <<[id |-> c.id, stream |-> stream, addr |-> Some(c.id)]>> \o @]

\* serve, tcp/server.rs:77-79: tokio::spawn(callback_clone.handle(stream, Some(peer_addr)))
\* and back to the top of the loop
serve_spawn(v, c, stream) ==
    [v EXCEPT !.state = "accept", !.cur = None,
              !.spawned = Append(@, [id |-> c.id, stream |-> stream, addr |-> Some(c.id)])]

\* serve, tcp/server.rs:44: TcpListener::bind(self.local_addr).await?
serve_bind(v, bind_ok) ==
    IF bind_ok THEN [v EXCEPT !.state = "accept"]
    ELSE [v EXCEPT !.state = "returned", !.result = Some(ServerErrorIo("AddrInUse"))]

\* a serve that leaves the loop, returning Ok(()), on an accept error that is
\* not of a closed kind
serve_accept_break(srvr, v, res) ==
    IF res.ok
    THEN IF srvr.tls_acceptor THEN [v EXCEPT !.state = "handshake", !.cur = Some(res.conn)]
         ELSE serve_spawn(v, res.conn, "Raw")
    ELSE LET err == ServerErrorIo(res.kind) IN
         IF is_closed(err) THEN [v EXCEPT !.state = "returned", !.result = Some(err)]
         ELSE [v EXCEPT !.state = "returned", !.result = Some([tag |-> "Ok", kind |-> ""])]

\* a serve that leaves the TLS handshake to the spawned task
serve_accept_handshake_in_task(srvr, v, res) ==
    IF res.ok
    THEN serve_spawn(v, res.conn, IF srvr.tls_acceptor THEN "Tls" ELSE "Raw")
    ELSE LET err == ServerErrorIo(res.kind) IN
         IF is_closed(err) THEN [v EXCEPT !.state = "returned", !.result = Some(err)]
         ELSE v

\* serve, tcp/server.rs:47-75: the match on listener.accept().await;
\* res is [ok, conn] or [ok, kind]
serve_accept(srvr, v, res) ==
    IF res.ok
    THEN IF srvr.tls_acceptor THEN [v EXCEPT !.state = "handshake", !.cur = Some(res.conn)]
         ELSE serve_spawn(v, res.conn, "Raw")
    ELSE LET err == ServerErrorIo(res.kind) IN
         IF is_closed(err) THEN [v EXCEPT !.state = "returned", !.result = Some(err)]
         ELSE v

\* a serve that propagates the handshake error
serve_tls_propagate(v, hs_ok) ==
    IF hs_ok THEN serve_spawn(v, v.cur[1], "Tls")
    ELSE [v EXCEPT !.state = "returned", !.cur = None, !.result = Some([tag |-> "Tls", kind |-> "handshake"])]

\* serve, tcp/server.rs:53-59: the match on acceptor.accept(s).await
serve_tls(v, hs_ok) ==
    IF hs_ok THEN serve_spawn(v, v.cur[1], "Tls")
    ELSE [v EXCEPT !.state = "accept", !.cur = None]

\* a cancellation that takes the spawned handler tasks down with serve
serve_cancel_cascade(v, ts) ==
    [serve |-> [v EXCEPT !.state = "cancelled", !.cur = None, !.detached = ts],
     tasks |-> [i \in 1..Len(ts) |-> IF ts[i] = "running" THEN "dropped" ELSE ts[i]]]

\* the serve future is dropped at an await (tcp/server.rs:47, 53): the listener
\* and the stream in its handshake go with it; the JoinHandles of tokio::spawn
\* were dropped at tcp/server.rs:79, so the tasks ts are detached and stay
serve_cancel(v, ts) ==
    [serve |-> [v EXCEPT !.state = "cancelled", !.cur = None, !.detached = ts],
     tasks |-> ts]

NoAccept == [type |-> "none", kind |-> "", id |-> 0]

InitServe ==
    /\ server = None
    /\ serve = ServeNew
    /\ backlog = <<>>
    /\ nconns = 0
    /\ lastAccept = NoAccept
    /\ tasks = <<>>

\* tasks after a step of serve: a task for every handle spawned
Spawned(v) == [i \in 1..Len(v.spawned) |-> IF i <= Len(tasks) THEN tasks[i] ELSE "running"]

\* TcpServer::init with or without TLS, then serve(callback) is called and binds
ServeStart ==
    /\ server = None
    /\ \E tls \in BOOLEAN, bind_ok \in BOOLEAN :
          /\ server' = Some([tls_acceptor |-> tls])
          /\ serve' = serve_bind(serve, bind_ok)
    /\ UNCHANGED <<backlog, nconns, lastAccept, tasks, wsVars, echoVars, connVars, sortVars, resolveVars, facadeVars>>

\* a peer connects to the listener
ConnArrive ==
    /\ serve.state \in {"accept", "handshake"}
    /\ nconns < MaxConns
    /\ \E tls \in (IF server[1].tls_acceptor THEN {"ok", "fail", "hang"} ELSE {"none"}) :
          backlog' = Append(backlog, [id |-> nconns + 1, tls |-> tls])
    /\ nconns' = nconns + 1
    /\ UNCHANGED <<server, serve, lastAccept, tasks, wsVars, echoVars, connVars, sortVars, resolveVars, facadeVars>>

\* listener.accept() returns the oldest waiting connection
AcceptConn ==
    /\ serve.state = "accept"
    /\ backlog # <<>>
    /\ serve' = serve_accept(server[1], serve, [ok |-> TRUE, conn |-> Head(backlog)])
    /\ backlog' = Tail(backlog)
    /\ lastAccept' = [type |-> "conn", kind |-> "", id |-> Head(backlog).id]
    /\ tasks' = Spawned(serve')
    /\ UNCHANGED <<server, nconns, wsVars, echoVars, connVars, sortVars, resolveVars, facadeVars>>

\* listener.accept() returns an error
AcceptErr ==
    /\ serve.state = "accept"
    /\ \E kind \in ErrorKinds :
          /\ serve' = serve_accept(server[1], serve, [ok |-> FALSE, kind |-> kind])
          /\ lastAccept' = [type |-> "err", kind |-> kind, id |-> 0]
    /\ UNCHANGED <<server, backlog, nconns, tasks, wsVars, echoVars, connVars, sortVars, resolveVars, facadeVars>>

\* the TLS handshake of the accepted connection ends
TlsHandshake ==
    /\ serve.state = "handshake"
    /\ serve.cur[1].tls # "hang"
    /\ serve' = serve_tls(serve, serve.cur[1].tls = "ok")
    /\ tasks' = Spawned(serve')
    /\ UNCHANGED <<server, backlog, nconns, lastAccept, wsVars, echoVars, connVars, sortVars, resolveVars, facadeVars>>

\* a handler task completes, panics, or is dropped before it completes
HandlerEnds ==
    /\ \E i \in 1..Len(tasks), how \in {"done", "failed", "dropped"} :
          /\ tasks[i] = "running"
          /\ tasks' = [tasks EXCEPT ![i] = how]
    /\ UNCHANGED <<server, serve, backlog, nconns, lastAccept, wsVars, echoVars, connVars, sortVars, resolveVars, facadeVars>>

NextServe ==
    ServeStart \/ ConnArrive \/ AcceptConn \/ AcceptErr \/ TlsHandshake \/ HandlerEnds

\* the caller cancels the serve task while it waits in accept or in a handshake
ServeCancel ==
    /\ serve.state \in {"accept", "handshake"}
    /\ LET c == serve_cancel(serve, tasks) IN
          /\ serve' = c.serve
          /\ tasks' = c.tasks
    /\ UNCHANGED <<server, backlog, nconns, lastAccept, wsVars, echoVars, connVars, sortVars, resolveVars, facadeVars>>

NextCancel == NextServe \/ ServeCancel

(***************************************************************************)
(* One call of sort_resolved (dns/resolver.rs:187-204) on any sequence of  *)
(* socket addresses, repetitions included, and any strategy.               *)
(*   sortCall.state : "idle", "called" (arguments chosen), "returned"      *)
(***************************************************************************)
SortAddrs == {SocketAddr(ip, port) : ip \in Ips, port \in Ports}
SortInputs == Lists(SortAddrs, MaxSortLen)

SortIdle == [state |-> "idle", result |-> <<>>, strategy |-> "Ipv4AndIpv6", sorted |-> <<>>]

InitSort == sortCall = SortIdle

\* the caller has an address sequence and a strategy
SortArgs ==
    /\ sortCall.state = "idle"
    /\ \E result \in SortInputs, strategy \in Strategies :
          sortCall' = [state |-> "called", result |-> result, strategy |-> strategy,
                       sorted |-> <<>>]
    /\ UNCHANGED <<wsVars, echoVars, connVars, serveVars, resolveVars, facadeVars>>

\* sort_resolved(result, strategy), collected
SortReturn ==
    /\ sortCall.state = "called"
    /\ sortCall' = [sortCall EXCEPT !.state = "returned",
                                    !.sorted = sort_resolved(sortCall.result, sortCall.strategy)]
    /\ UNCHANGED <<wsVars, echoVars, connVars, serveVars, resolveVars, facadeVars>>

NextSort == SortArgs \/ SortReturn

(***************************************************************************)
(* One call of Resolver::resolve (dns/resolver.rs:63-98) or of             *)
(* Resolver::block_resolve (dns/resolver.rs:100-120), one step per         *)
(* scheduler interaction.                                                  *)
(*   c.api    : "resolve" (awaited by a task) or "block_resolve"           *)
(*   c.ctx    : the calling thread: "worker" (a worker of a multi-threaded *)
(*              scheduler), "ct" (the thread of a current-thread           *)
(*              scheduler), "pool_mt" / "pool_ct" (a blocking-pool thread  *)
(*              of a multi-threaded / current-thread runtime), "none" (no  *)
(*              runtime)                                                   *)
(*   c.others : how many other workers of the multi-threaded scheduler are *)
(*              running their loop (the rest are busy for good)            *)
(*   c.core   : the caller's worker core: "held" by the caller, "handed"   *)
(*              to a thread that runs the worker loop in its place, "none" *)
(*   c.rt     : the runtime resolve is driven on: "current", "fresh"       *)
(*   c.task   : the lookup: "none", "blocking" (lookup_host under the      *)
(*              timeout), "spawned" (tokio::spawn of lookup_ip), "ran"     *)
(*   c.state  : "idle", "called", "in_place" (inside the closure of        *)
(*              block_in_place), "resolving" (resolve polled), "awaiting"  *)
(*              (resolve awaits the lookup), "returned", "panicked"        *)
(***************************************************************************)
Contexts == {"worker", "ct", "pool_mt", "pool_ct", "none"}
NoResult == [res |-> "none", addrs |-> <<>>]
NoLookup == [res |-> "none", ips |-> <<>>]

RIdle ==
    [state |-> "idle", api |-> "none", ctx |-> "none",
     resolver |-> [variant |-> "Default", strategy |-> "Ipv4ThenIpv6"],
     port |-> 0, others |-> 0, core |-> "none", rt |-> "none", task |-> "none",
     lookup |-> NoLookup, result |-> NoResult]

\* a block_in_place that leaves the worker's core with the blocked caller
block_in_place_keep_core(c) ==
    IF c.ctx = "ct" THEN [c EXCEPT !.state = "panicked"]
    ELSE [c EXCEPT !.state = "in_place"]

\* tokio::task::block_in_place, dns/resolver.rs:105: on a worker the core is
\* handed to another thread; on a current-thread scheduler it panics;
\* elsewhere it only runs the closure
block_in_place(c) ==
    IF c.ctx = "ct" THEN [c EXCEPT !.state = "panicked"]
    ELSE IF c.ctx = "worker" THEN [c EXCEPT !.state = "in_place", !.core = "handed"]
    ELSE [c EXCEPT !.state = "in_place"]

\* tokio::runtime::Handle::try_current().is_ok(), dns/resolver.rs:106
Handle_try_current(ctx) == ctx # "none"

\* the closure, dns/resolver.rs:106-116: the runtime to block on
enter_runtime(c, build_ok) ==
    IF Handle_try_current(c.ctx) THEN [c EXCEPT !.state = "resolving", !.rt = "current"]
    ELSE IF build_ok THEN [c EXCEPT !.state = "resolving", !.rt = "fresh"]
    ELSE [c EXCEPT !.state = "returned", !.result = [res |-> "Initialize", addrs |-> <<>>]]

\* resolve, dns/resolver.rs:68-96, up to its await: Default awaits lookup_host
\* under the timeout, System and Custom spawn lookup_ip and await the JoinHandle
resolve_start(c) ==
    [c EXCEPT !.state = "awaiting",
              !.task = IF c.resolver.variant = "Default" THEN "blocking" ELSE "spawned"]

\* a scheduler whose spawned tasks only workers of a multi-threaded runtime run
scheduler_runs_workers_only(c) ==
    CASE c.api = "resolve" -> TRUE
      [] OTHER -> c.core = "handed" \/ c.others > 0

\* whether some scheduler thread runs a task spawned on the runtime of c:
\* the thread driving a current-thread runtime (the caller itself on the fresh
\* one), or a worker of the multi-threaded one that runs its loop
scheduler_runs(c) ==
    CASE c.api = "resolve" -> TRUE
      [] c.rt = "fresh" -> TRUE
      [] c.ctx = "pool_ct" -> TRUE
      [] OTHER -> c.core = "handed" \/ c.others > 0

\* resolve, dns/resolver.rs:70-96: the lookup is over
resolve_finish(c, lookup) ==
    [c EXCEPT !.state = "returned", !.task = "ran", !.lookup = lookup,
              !.result = resolve(c.resolver, c.port, lookup)]

InitResolve == rcall = RIdle

\* resolve is polled by a task, or block_resolve is called by a thread
ResolveCall ==
    /\ rcall.state = "idle"
    /\ \E api \in {"resolve", "block_resolve"}, ctx \in Contexts, variant \in Variants,
          port \in Ports, strategy \in Strategies, workers \in 1..MaxWorkers :
          \E others \in (IF ctx = "worker" THEN 0..(workers - 1)
                         ELSE IF ctx = "pool_mt" THEN 1..workers ELSE {0}) :
             /\ api = "resolve" => ctx \in {"worker", "ct"}
             /\ variant # "Default" => strategy = "Ipv4ThenIpv6"
             /\ rcall' = [RIdle EXCEPT
                            !.state = IF api = "resolve" THEN "resolving" ELSE "called",
                            !.api = api, !.ctx = ctx,
                            !.resolver = [variant |-> variant, strategy |-> strategy],
                            !.port = port, !.others = others,
                            !.core = IF ctx = "worker" THEN "held" ELSE "none",
                            !.rt = IF api = "resolve" THEN "current" ELSE "none"]
    /\ UNCHANGED <<wsVars, echoVars, connVars, serveVars, sortVars, facadeVars>>

\* block_resolve: tokio::task::block_in_place
BlockInPlace ==
    /\ rcall.state = "called"
    /\ rcall' = block_in_place(rcall)
    /\ UNCHANGED <<wsVars, echoVars, connVars, serveVars, sortVars, facadeVars>>

\* block_resolve: the closure picks the runtime and blocks on resolve
EnterRuntime ==
    /\ rcall.state = "in_place"
    /\ \E build_ok \in BOOLEAN : rcall' = enter_runtime(rcall, build_ok)
    /\ UNCHANGED <<wsVars, echoVars, connVars, serveVars, sortVars, facadeVars>>

\* resolve runs up to its await
ResolveStart ==
    /\ rcall.state = "resolving"
    /\ rcall' = resolve_start(rcall)
    /\ UNCHANGED <<wsVars, echoVars, connVars, serveVars, sortVars, facadeVars>>

\* the lookup ends (a spawned one only if some scheduler thread runs it) and
\* resolve returns
ResolveFinish ==
    /\ rcall.state = "awaiting"
    /\ rcall.task = "spawned" => scheduler_runs(rcall)
    /\ \E lookup \in Lookups(rcall.resolver.variant) : rcall' = resolve_finish(rcall, lookup)
    /\ UNCHANGED <<wsVars, echoVars, connVars, serveVars, sortVars, facadeVars>>

NextResolve == ResolveCall \/ BlockInPlace \/ EnterRuntime \/ ResolveStart \/ ResolveFinish

(***************************************************************************)
(* The TransportClient facade (client.rs) and the Empty transport          *)
(* (empty.rs): EmptyStream is tokio::io::Empty.                            *)
(*   trans_opt : [variant, addr, port, tls]                                *)
(*   a TransportClient is [variant, cli], cli the TcpClient or             *)
(*   WebSocketClient record (None for Empty)                               *)
(*   an operation on the stream is logged as [op, len, poll, ok, n]: len   *)
(*   the length of the buffer, n the bytes read or the count reported      *)
(***************************************************************************)
ClientVariants == {"Empty", "Tcp", "Ws"}

\* transport_client_enum!: name() is stringify!($id)
name(c) ==
    CASE c.variant = "Empty" -> "Empty"
      [] c.variant = "Tcp" -> "Tcp"
      [] c.variant = "Ws" -> "Ws"

\* From<$id_ty> for TransportClient
TransportClient_from(variant, inner) == [variant |-> variant, cli |-> inner]

\* an init that builds a TcpClient for a Ws option
TransportClient_init_ws_as_tcp(trans_opt, resolver, lookup, rt, uri_ok) ==
    IF trans_opt.variant = "Empty"
    THEN [res |-> Ok("Empty", 0), client |-> Some(TransportClient_from("Empty", None))]
    ELSE LET i == TcpClient_init(trans_opt, trans_opt.tls, resolver, lookup, rt) IN
         IF i.res.ok
         THEN [res |-> Ok("Tcp", 0), client |-> Some(TransportClient_from("Tcp", i.client))]
         ELSE [res |-> i.res, client |-> None]

\* TransportClient::init
TransportClient_init(trans_opt, resolver, lookup, rt, uri_ok) ==
    CASE trans_opt.variant = "Empty" ->
            [res |-> Ok("Empty", 0), client |-> Some(TransportClient_from("Empty", None))]
      [] trans_opt.variant = "Tcp" ->
            LET i == TcpClient_init(trans_opt, trans_opt.tls, resolver, lookup, rt) IN
            IF i.res.ok
            THEN [res |-> Ok("Tcp", 0), client |-> Some(TransportClient_from("Tcp", i.client))]
            ELSE [res |-> i.res, client |-> None]
      [] trans_opt.variant = "Ws" ->
            LET i == WebSocketClient_init(trans_opt, trans_opt.tls, resolver, lookup, rt, uri_ok) IN
            IF i.res.ok
            THEN [res |-> Ok("Ws", 0), client |-> Some(TransportClient_from("Ws", i.client))]
            ELSE [res |-> i.res, client |-> None]

\* EmptyClient::connect, through TransportClient::connect
EmptyClient_connect == Ok("Empty", 0)

OpResult(op, len, poll, n) == [op |-> op, len |-> len, poll |-> poll, ok |-> TRUE, n |-> n]

\* an Empty whose write accepts nothing
Empty_poll_write_zero(len, coop) ==
    IF coop THEN OpResult("write", len, "Ready", 0) ELSE OpResult("write", len, "Pending", 0)

\* tokio::io::Empty through TransportClientStream: Pending only to yield to
\* the scheduler (coop = FALSE: the task's budget is used up), never an error
Empty_poll_read(cap, coop) ==
    IF coop THEN OpResult("read", cap, "Ready", 0) ELSE OpResult("read", cap, "Pending", 0)

Empty_poll_write(len, coop) ==
    IF coop THEN OpResult("write", len, "Ready", len) ELSE OpResult("write", len, "Pending", 0)

Empty_poll_flush(coop) ==
    IF coop THEN OpResult("flush", 0, "Ready", 0) ELSE OpResult("flush", 0, "Pending", 0)

Empty_poll_shutdown(coop) ==
    IF coop THEN OpResult("shutdown", 0, "Ready", 0) ELSE OpResult("shutdown", 0, "Pending", 0)

NoTInit ==
    [called |-> FALSE, variant |-> "Empty", host |-> "", explicit |-> "", tls |-> FALSE,
     uri_ok |-> TRUE, name_ok |-> TRUE, addrs |-> NoResolve, res |-> Ok("", 0)]

InitFacade ==
    /\ tclient = None
    /\ tlog = NoTInit
    /\ estream = None
    /\ ehist = <<>>

\* TransportClient::init is called with some option; the log keeps the option's
\* variant, dial host, explicit TLS server name, whether that name and the URI
\* are valid, and the address list the option resolves to
TransportInit ==
    /\ ~tlog.called
    /\ \E variant \in ClientVariants, addr \in Addrs, port \in Ports,
          tls_opt \in TlsClientOptions, rv \in Variants, strategy \in Strategies,
          rt \in Runtimes, uri_ok \in BOOLEAN :
          \E lookup \in Lookups(rv) :
             LET trans_opt == [variant |-> variant, addr |-> addr, port |-> port, tls |-> tls_opt]
                 resolver == [variant |-> rv, strategy |-> strategy]
                 explicit == IF tls_opt = None THEN "" ELSE tls_opt[1].server_name
                 a == init_addrs(trans_opt, resolver, lookup, rt)
                 i == TransportClient_init(trans_opt, resolver, lookup, rt, uri_ok) IN
             /\ variant = "Empty" =>
                   (addr.lit /\ tls_opt = None /\ rv = "Default" /\ strategy = "Ipv4ThenIpv6"
                      /\ rt = "current" /\ uri_ok)
             /\ tclient' = i.client
             /\ tlog' = [called |-> TRUE, variant |-> variant, host |-> addr.name,
                         explicit |-> explicit, tls |-> tls_opt # None, uri_ok |-> uri_ok,
                         name_ok |-> ServerName_try_from(IF explicit = "" THEN addr.name
                                                        ELSE explicit),
                         addrs |-> [res |-> a.res, addrs |-> a.addrs], res |-> i.res]
    /\ UNCHANGED <<estream, ehist>>
    /\ UNCHANGED <<wsVars, echoVars, connVars, serveVars, sortVars, resolveVars>>

IsEmptyClient == tclient # None /\ tclient[1].variant = "Empty"

\* TransportClient::connect on the Empty variant
EmptyConnect ==
    /\ IsEmptyClient
    /\ estream = None
    /\ estream' = Some(EmptyClient_connect)
    /\ UNCHANGED <<tclient, tlog, ehist>>
    /\ UNCHANGED <<wsVars, echoVars, connVars, serveVars, sortVars, resolveVars>>

CanPollEmpty == estream # None /\ estream[1].ok /\ Len(ehist) < MaxEmptyOps

EmptyRead ==
    /\ CanPollEmpty
    /\ \E cap \in 0..MaxEmptyLen, coop \in BOOLEAN :
          ehist' = Append(ehist, Empty_poll_read(cap, coop))
    /\ UNCHANGED <<tclient, tlog, estream>>
    /\ UNCHANGED <<wsVars, echoVars, connVars, serveVars, sortVars, resolveVars>>

EmptyWrite ==
    /\ CanPollEmpty
    /\ \E len \in 0..MaxEmptyLen, coop \in BOOLEAN :
          ehist' = Append(ehist, Empty_poll_write(len, coop))
    /\ UNCHANGED <<tclient, tlog, estream>>
    /\ UNCHANGED <<wsVars, echoVars, connVars, serveVars, sortVars, resolveVars>>

EmptyFlush ==
    /\ CanPollEmpty
    /\ \E coop \in BOOLEAN : ehist' = Append(ehist, Empty_poll_flush(coop))
    /\ UNCHANGED <<tclient, tlog, estream>>
    /\ UNCHANGED <<wsVars, echoVars, connVars, serveVars, sortVars, resolveVars>>

EmptyShutdown ==
    /\ CanPollEmpty
    /\ \E coop \in BOOLEAN : ehist' = Append(ehist, Empty_poll_shutdown(coop))
    /\ UNCHANGED <<tclient, tlog, estream>>
    /\ UNCHANGED <<wsVars, echoVars, connVars, serveVars, sortVars, resolveVars>>

NextFacade ==
    TransportInit \/ EmptyConnect \/ EmptyRead \/ EmptyWrite \/ EmptyFlush \/ EmptyShutdown

(***************************************************************************)
(* The specifications.                                                     *)
(***************************************************************************)
Init == InitWs /\ InitEcho /\ InitConn /\ InitServe /\ InitSort /\ InitResolve /\ InitFacade

\* the read half of one adapter
Spec == Init /\ [][NextWs]_vars

\* the write half of one adapter
SpecWrite == Init /\ [][NextWrite]_vars

\* reads and writes of one adapter interleaved
SpecDuplex == Init /\ [][NextDuplex]_vars

\* the tokio scheduler runs every ready task and the connection delivers what
\* was flushed
SpecEcho ==
    /\ Init
    /\ [][NextEcho]_vars
    /\ WF_vars(ServerWrite) /\ WF_vars(ServerFlush) /\ WF_vars(ServerRead)
    /\ WF_vars(ClientRead) /\ WF_vars(ClientWrite) /\ WF_vars(ClientFlush)
    /\ WF_vars(DeliverToClient) /\ WF_vars(DeliverToServer)

\* client construction and connect
SpecConnect == Init /\ [][NextConnect]_vars

\* sort_resolved on every input
SpecSort == Init /\ [][NextSort]_vars

\* resolve and block_resolve: the calling thread runs, and a lookup that can
\* end does end (the timeout of the Default resolver, the timeouts of the stub)
SpecResolve ==
    /\ Init
    /\ [][NextResolve]_vars
    /\ WF_vars(BlockInPlace) /\ WF_vars(EnterRuntime)
    /\ WF_vars(ResolveStart) /\ WF_vars(ResolveFinish)

\* TransportClient::init on every option, and the Empty stream
SpecFacade == Init /\ [][NextFacade]_vars

\* the accept loop: the serve task is scheduled whenever it can run (an accept
\* that has a connection waiting returns it, a handshake that ends is noticed);
\* nothing is assumed of the handlers
SpecServe ==
    /\ Init
    /\ [][NextServe]_vars
    /\ WF_vars(AcceptConn) /\ WF_vars(TlsHandshake)

\* the accept loop with a caller that may cancel it
SpecCancel == Init /\ [][NextCancel]_vars

(***************************************************************************)
(* Properties of the WebSocket adapter.                                    *)
(***************************************************************************)
\* the payload bytes of the Binary and Text messages of a sequence of items
RECURSIVE DataBytes(_)
DataBytes(items) ==
    IF items = <<>> THEN <<>>
    ELSE (IF Head(items).kind \in DataKinds THEN Head(items).data ELSE <<>>)
             \o DataBytes(Tail(items))

Remaining(s) == IF s.chunk = None THEN <<>> ELSE s.chunk[1]

\* a read with capacity >= 1 that completed with zero bytes: end of stream
ReadEof == lastRead.cap >= 1 /\ lastRead.poll = "Ready" /\ lastRead.n = 0

\* C1: the bytes returned by the reads so far, followed by the bytes still
\* buffered in the adapter and in the receiver, are the payloads of the inbound
\* Binary and Text messages in arrival order (control messages contribute
\* nothing); once a read has reported the end of the stream, the bytes returned
\* are all of them.
C1_ReadsConcatenatePayloads ==
    /\ out \o Remaining(ws) \o DataBytes(ws.rx) = DataBytes(inbound)
    /\ ReadEof => out = DataBytes(inbound)

\* a control message came before a data message, two data messages were
\* drained by reads of capacity 1 < payload length, and the peer closed
C1_Witness ==
    /\ Len(inbound) = MaxMsgs
    /\ inbound[1].kind = "Ping"
    /\ inbound[2].kind = "Binary" /\ Len(inbound[2].data) = 2
    /\ inbound[3].kind = "End"
    /\ ReadEof
    /\ Len(out) = 2

\* the bytes of the data messages before the one holding byte number pos + 1
\* of the data stream, and the length of that message
RECURSIVE CurrentRemaining(_, _)
CurrentRemaining(items, pos) ==
    IF items = <<>> THEN 0
    ELSE LET l == IF Head(items).kind \in DataKinds THEN Len(Head(items).data) ELSE 0 IN
         IF pos < l THEN l - pos ELSE CurrentRemaining(Tail(items), pos - l)

ReadData == lastRead.poll = "Ready" /\ lastRead.n > 0

\* the bytes the last read returned
LastBytes == SubSeq(out, Len(out) - lastRead.n + 1, Len(out))

MultiplesOf(c) ==
    \A i \in 1..Len(inbound) :
        inbound[i].kind \in DataKinds =>
            Len(inbound[i].data) > 0 /\ Len(inbound[i].data) % c = 0

\* C3: a read of capacity c that completes with data returns min(c, r) bytes,
\* r being the undrained bytes of the current message, all of them bytes of
\* that one message; and when every data message is a positive multiple of c
\* long and the bytes returned before were a multiple of c (every earlier read
\* returned c bytes), the read returns exactly c bytes.
C3_ReadReturnsMinOfCapAndRemaining ==
    ReadData =>
        /\ lastRead.n = Min(lastRead.cap, CurrentRemaining(inbound, Len(out) - lastRead.n))
        /\ \A i, j \in 1..Len(LastBytes) : LastBytes[i][1] = LastBytes[j][1]
        /\ (MultiplesOf(lastRead.cap) /\ (Len(out) - lastRead.n) % lastRead.cap = 0)
               => lastRead.n = lastRead.cap

\* a read of capacity 2 returned 1 byte, the rest of a message, while the next
\* data message was already waiting in the receiver
C3_Witness ==
    /\ ReadData
    /\ lastRead.cap = 2 /\ lastRead.n = 1
    /\ DataBytes(ws.rx) # <<>>
    /\ Len(out) >= 2

\* C2: the messages handed to the sink are, one for one and in order, Binary
\* messages carrying the buffers of the completed writes, and a completed write
\* reports the length of its buffer.
C2_WriteOneBinaryMessage ==
    /\ ws.tx.msgs = [i \in 1..Len(written) |-> Msg("Binary", written[i])]
    /\ lastWrite.poll = "Ready" =>
          /\ lastWrite.n = Len(lastWrite.buf)
          /\ written # <<>> /\ written[Len(written)] = lastWrite.buf

\* two writes completed, an empty one and one of the longest buffer
C2_Witness ==
    /\ Len(written) = 2
    /\ written[1] = <<>> /\ Len(written[2]) = MaxLen
    /\ lastWrite.poll = "Ready"
    /\ Len(ws.tx.msgs) = 2

\* C22: whatever else is polled in between (reads, flushes, shutdowns, writes
\* that return Pending or fail), a step hands a message to the sink exactly
\* when a write completes in it, and that message is the Binary message of the
\* write's buffer, put behind every message handed over before.
C22_WritesSubmitInCallOrder ==
    [][IF written' # written
       THEN ws'.tx.msgs = Append(ws.tx.msgs, Msg("Binary", written'[Len(written')]))
       ELSE ws'.tx.msgs = ws.tx.msgs]_vars

\* two writes of different buffers completed on a connection on which a read
\* delivered bytes and a flush completed, and the sink holds the two buffers in
\* call order
C22_Witness ==
    /\ Len(written) = 2 /\ written[1] # written[2]
    /\ out # <<>> /\ lastRead.poll = "Ready"
    /\ ws.tx.flushed = 2
    /\ ws.tx.msgs = <<Msg("Binary", written[1]), Msg("Binary", written[2])>>

\* a chunk is stored and has no byte left
DrainedSome == ws.chunk # None /\ ws.chunk[1] = <<>>

\* C26 as stated: a stored chunk has at least one byte that was not returned.
C26_StoredChunkHasRemainingBytes == ws.chunk # None => Len(ws.chunk[1]) >= 1

\* C26, amended: a stored chunk is the rest (possibly nothing) of the payload
\* of one inbound data message, none of it returned yet; a chunk with nothing
\* left is not served: a read with room that finds it polls the receiver, and
\* when that read returns bytes they start a later message, whose rest is the
\* stored chunk afterwards.
C26_StoredChunkIsUnreturnedRest ==
    /\ [](ws.chunk # None =>
            /\ \E k \in 1..Len(inbound) :
                  /\ inbound[k].kind \in DataKinds
                  /\ \E n \in 0..Len(inbound[k].data) : ws.chunk[1] = Drop(inbound[k].data, n)
            /\ \A i \in 1..Len(ws.chunk[1]), j \in 1..Len(out) : ws.chunk[1][i] # out[j])
    /\ [][(DrainedSome /\ inbound' = inbound /\ lastRead' # lastRead /\ lastRead'.cap >= 1) =>
            /\ lastRead'.polls >= 1
            /\ out' # out =>
                  /\ out'[Len(out) + 1][2] = 1
                  /\ ws'.chunk # None
                  /\ \E k \in 1..Len(inbound) :
                        inbound[k].data = SubSeq(out', Len(out) + 1, Len(out')) \o ws'.chunk[1]]_vars

\* the first message was drained to nothing left and the next fill replaced it:
\* the stored chunk is the last byte of the second message
C26_Witness ==
    /\ Len(inbound) >= 2
    /\ inbound[1].kind = "Binary" /\ Len(inbound[1].data) = 2
    /\ Len(out) = 3
    /\ ws.chunk = Some(<<<<2, 2>>>>)

\* the items at the head of the receiver that a fill passes over: control
\* messages and data messages with an empty payload
RECURSIVE Skipped(_)
Skipped(rx) ==
    IF rx = <<>> THEN 0
    ELSE IF Head(rx).kind \in ControlKinds
              \/ (Head(rx).kind \in DataKinds /\ Head(rx).data = <<>>)
         THEN 1 + Skipped(Tail(rx))
         ELSE 0

\* a read with room ran on an adapter whose chunk had no byte to serve
EmptyBufferRead ==
    /\ Remaining(ws) = <<>>
    /\ inbound' = inbound
    /\ lastRead'.cap >= 1

\* C27 as stated: a read with room on an empty chunk buffer polls the receiver
\* exactly once.
C27_OnePollPerEmptyBufferRead ==
    [][EmptyBufferRead => lastRead'.polls = 1]_vars

\* C27, amended: such a read polls the receiver once for every control message
\* and empty payload at the head of the receiver, which it takes and passes
\* over, and once more for what follows them (nothing ready, the end, an error
\* or a data message with bytes); a read that finds bytes in the chunk, or has
\* no room, does not poll.
C27_OnePollPerSkippedMessagePlusOne ==
    [][/\ EmptyBufferRead =>
            /\ lastRead'.polls = Skipped(ws.rx) + 1
            /\ Len(ws.rx) - Len(ws'.rx) \in {Skipped(ws.rx), Skipped(ws.rx) + 1}
       /\ (inbound' = inbound /\ lastRead' # lastRead
             /\ (Remaining(ws) # <<>> \/ lastRead'.cap = 0)) => lastRead'.polls = 0]_vars

\* a read passed over a Ping and an empty Binary message and returned the bytes
\* of the message behind them: three polls of the receiver
C27_Witness ==
    /\ Len(inbound) = 3
    /\ inbound[1].kind = "Ping"
    /\ inbound[2] = Msg("Binary", <<>>)
    /\ inbound[3].kind = "Binary"
    /\ lastRead.polls = 3 /\ lastRead.poll = "Ready" /\ lastRead.n = 2

\* the first item of the receiver that a fill does not pass over is an error
ErrorNext ==
    /\ Len(ws.rx) > Skipped(ws.rx)
    /\ ws.rx[Skipped(ws.rx) + 1].kind = "Error"

\* C30: a read with room on a chunk buffer without bytes that gets an error
\* from the receiver fails; a read fails only so, returns no byte and leaves the
\* chunk buffer without bytes (the stored chunk itself untouched when the error
\* is the first item polled); and when a read has failed, every payload byte
\* that arrived before the error had been returned by the reads before it.
C30_ReceiverErrorFailsRead ==
    /\ [][(EmptyBufferRead /\ ErrorNext) => lastRead'.poll = "Err"]_vars
    /\ [][(inbound' = inbound /\ lastRead'.poll = "Err") =>
            /\ Remaining(ws) = <<>> /\ ErrorNext
            /\ out' = out /\ lastRead'.n = 0
            /\ Remaining(ws') = <<>>
            /\ Skipped(ws.rx) = 0 => ws'.chunk = ws.chunk]_vars
    /\ [](lastRead.poll = "Err" =>
            LET k == Len(inbound) - Len(ws.rx) IN
            /\ k >= 1 /\ inbound[k].kind = "Error"
            /\ out = DataBytes(Take(inbound, k)))

\* a message of two bytes and then an error arrived before anything was read:
\* the reads returned the two bytes, then the next read failed
C30_Witness ==
    /\ Len(inbound) >= 2
    /\ inbound[1].kind = "Binary" /\ Len(inbound[1].data) = 2
    /\ inbound[2].kind = "Error"
    /\ lastRead.poll = "Err" /\ lastRead.n = 0
    /\ Len(out) = 2
    /\ Len(ws.rx) = Len(inbound) - 2

\* C32: a read with room that completed with zero bytes found the end of the
\* stream in the receiver (where it stays), with no byte left in the chunk: an
\* empty Binary or Text message is never what a 0-byte read reports.
C32_ZeroByteReadOnlyAtEndOfStream ==
    ReadEof =>
        /\ ws.rx # <<>> /\ Head(ws.rx).kind = "End"
        /\ Remaining(ws) = <<>>
        /\ Ended

\* an empty Binary and an empty Text message arrived, then the peer closed:
\* one read passed over both and reported the end of the stream
C32_Witness ==
    /\ inbound = <<Msg("Binary", <<>>), Msg("Text", <<>>), Msg("End", <<>>)>>
    /\ ReadEof /\ lastRead.polls = 3
    /\ out = <<>>

\* C36: a read with room on a chunk that holds bytes completes at once with
\* the first min(room, bytes held) of them, without a poll of the receiver,
\* which keeps what it has ready; and a read takes items from the receiver only
\* when the chunk holds no byte.
C36_BufferedBytesServedWithoutPoll ==
    /\ [][(Remaining(ws) # <<>> /\ inbound' = inbound /\ lastRead'.cap >= 1) =>
            /\ lastRead'.poll = "Ready" /\ lastRead'.polls = 0
            /\ lastRead'.n = Min(lastRead'.cap, Len(Remaining(ws)))
            /\ out' = out \o Take(Remaining(ws), lastRead'.n)
            /\ ws'.rx = ws.rx]_vars
    /\ [][(inbound' = inbound /\ ws'.rx # ws.rx) => Remaining(ws) = <<>>]_vars

\* one byte of a message was left in the chunk while a second message waited in
\* the receiver; a read with room for two returned that one byte, without a
\* poll, and the second message still waits
C36_Witness ==
    /\ Len(inbound) >= 2
    /\ inbound[1] = Msg("Binary", Payload(1, 2))
    /\ inbound[2].kind = "Binary" /\ inbound[2].data # <<>>
    /\ lastRead = [cap |-> 2, poll |-> "Ready", n |-> 1, polls |-> 0]
    /\ out = Payload(1, 2)
    /\ ws.rx # <<>> /\ Head(ws.rx) = inbound[2]

\* the stored chunk is a message of which some bytes were returned and some
\* are still to be returned
PartlyDrained ==
    /\ ws.chunk # None /\ ws.chunk[1] # <<>>
    /\ ws.chunk[1][1][2] > 1

\* C25: when a read future was dropped while the stored message was partly
\* drained, the read that follows returns no byte of that message.
C25_CancelledReadLosesChunk ==
    [][(lastRead.poll = "Dropped" /\ PartlyDrained) =>
          \A i \in (Len(out) + 1)..Len(out') : out'[i][1] # ws.chunk[1][1][1]]_vars

\* C37: a write poll that returns Pending or an error hands nothing to the
\* sink and counts no byte; a poll that completes a write which returned
\* Pending before hands over the one Binary message of its buffer; so the sink
\* has received as many messages as writes have completed, however often the
\* polls returned Pending.
C37_PendingWriteEnqueuesNothing ==
    /\ [][(lastWrite' # lastWrite /\ lastWrite'.poll \in {"Pending", "Err"}) =>
            /\ ws'.tx.msgs = ws.tx.msgs
            /\ written' = written
            /\ lastWrite'.n = 0]_vars
    /\ [][(lastWrite.poll = "Pending" /\ lastWrite'.poll = "Ready"
             /\ lastWrite'.buf = lastWrite.buf) =>
            ws'.tx.msgs = Append(ws.tx.msgs, Msg("Binary", lastWrite.buf))]_vars
    /\ [](Len(ws.tx.msgs) = Len(written))

\* after one write had completed, the poll of a write of the longest buffer
\* found the sink not ready: the sink holds the one message
C37_Witness ==
    /\ lastWrite.poll = "Pending" /\ Len(lastWrite.buf) = MaxLen
    /\ Len(written) = 1
    /\ ws.tx.msgs = <<Msg("Binary", written[1])>>

\* C4: under fair scheduling both sides of the echo exchange finish all their
\* rounds: no read fails its assertion, no task waits for ever.
C4_EchoTerminates == <>(spc.phase = "done" /\ cpc.phase = "done")

\* both sides at the end of the last round, every message delivered and read
C4_Witness ==
    /\ spc = Pc("done", EchoRounds, 0) /\ cpc = Pc("done", EchoRounds, 0)
    /\ Len(srv.tx.msgs) = EchoRounds /\ Len(cli.tx.msgs) = EchoRounds
    /\ s2c = EchoRounds /\ c2s = EchoRounds

(***************************************************************************)
(* Properties of client construction and connect.                          *)
(***************************************************************************)
Done == conn.state = "done"
Result == conn.result[1]
NAttempts == Len(conn.attempts)
AllRefused == \A j \in 1..NAttempts : ~conn.attempts[j].ok

\* the walk of a TcpClient: attempts in list order, each address once at most,
\* none after the first TCP connect that succeeds
WalkInOrder ==
    /\ NAttempts <= Len(client[1].addrs)
    /\ \A j \in 1..NAttempts : conn.attempts[j].at = j
    /\ \A j \in 1..(NAttempts - 1) : ~conn.attempts[j].ok

\* the walk reached an address whose TCP connect succeeded, and the call is over
ReachedLive == Done /\ NAttempts > 0 /\ conn.attempts[NAttempts].ok

\* C5, as stated: TcpClient::connect attempts the addresses in list order, each
\* once at most, and returns the stream of the first address whose TCP connect
\* succeeds, attempting none after it; with no TLS configured that stream is Raw.
C5_ReturnsStreamOfFirstLive ==
    (client # None /\ client[1].kind = "Tcp") =>
        /\ WalkInOrder
        /\ ReachedLive => (Result.ok /\ Result.at = NAttempts)
        /\ (ReachedLive /\ ~client[1].tls) => Result = Ok("Raw", NAttempts)

\* C5, amended: TcpClient::connect attempts the addresses in list order, each
\* once at most, and none after the first TCP connect that succeeds; the call
\* then returns the stream of that address (Raw with no TLS configured, Tls
\* with), or, with TLS configured, the error of the TLS handshake on that
\* address; it fails with a connect error only when every address was refused.
C5_ConnectFirstLiveAddress ==
    (client # None /\ client[1].kind = "Tcp") =>
        /\ WalkInOrder
        /\ (Done /\ Result.ok) => (ReachedLive /\ Result.at = NAttempts)
        /\ (Done /\ ~Result.ok /\ Result.what = "connect") =>
              AllRefused /\ NAttempts = Len(client[1].addrs)
        /\ (~client[1].tls /\ NAttempts > 0 /\ conn.attempts[NAttempts].ok) =>
              Done /\ Result = Ok("Raw", NAttempts)
        /\ (ReachedLive /\ client[1].tls) =>
              Result \in {Ok("Tls", NAttempts), Err("Io", "tls handshake", NAttempts)}

\* the list [dead, live] without TLS: refused, then the Raw stream of the second
C5_Witness ==
    /\ client # None /\ client[1].kind = "Tcp" /\ ~client[1].tls
    /\ Len(client[1].addrs) = 2
    /\ conn.attempts = <<[at |-> 1, ok |-> FALSE], [at |-> 2, ok |-> TRUE]>>
    /\ Done /\ Result = Ok("Raw", 2)

\* C6: a refused address does not end the walk while addresses remain, and
\* when every address of a non-empty list was refused the call fails with the
\* connect error of the last address of the list.
C6_LastErrorSurfaces ==
    client # None =>
        /\ (NAttempts > 0 /\ ~conn.attempts[NAttempts].ok /\ NAttempts < Len(client[1].addrs))
              => ~Done
        /\ (Done /\ AllRefused /\ NAttempts > 0) =>
              /\ NAttempts = Len(client[1].addrs)
              /\ Result = Err("Io", "connect", Len(client[1].addrs))

\* both addresses of a list of two were refused
C6_Witness ==
    /\ client # None
    /\ Len(client[1].addrs) = 2
    /\ Done /\ AllRefused /\ NAttempts = 2
    /\ Result = Err("Io", "connect", 2)

\* C7: an init whose resolution yielded no address fails with
\* Option("unknown address"), and no client holds an empty address list.
C7_InitFailsOnEmptyList ==
    /\ (initLog.resolved.res = "ok" /\ initLog.resolved.addrs = <<>>) =>
          initRes = Some(Err("Option", "unknown address", 0))
    /\ client # None => client[1].addrs # <<>>

\* a TcpClient exists
IsTcp == client # None /\ client[1].kind = "Tcp"

\* C33: in TcpClient::connect the step that ends the TLS handshake on an
\* address ends the call, attempting nothing more: with the Tls stream of that
\* address or with the handshake error on it; and a call that failed with a
\* handshake error failed on the address it attempted last, whose TCP connect
\* had succeeded, whatever connect error it had remembered and however many
\* addresses were left.
C33_TlsHandshakeFailureEndsConnect ==
    /\ [][(IsTcp /\ conn.state = "handshake" /\ conn' # conn) =>
            /\ conn'.state = "done"
            /\ conn'.attempts = conn.attempts
            /\ conn'.result[1] \in {Ok("Tls", conn.idx), Err("Io", "tls handshake", conn.idx)}]_vars
    /\ []((IsTcp /\ Done /\ ~Result.ok /\ Result.what = "tls handshake") =>
            /\ client[1].tls
            /\ Result = Err("Io", "tls handshake", NAttempts)
            /\ conn.attempts[NAttempts].ok
            /\ \A j \in 1..(NAttempts - 1) : ~conn.attempts[j].ok)

\* the first of two addresses accepted the TCP connect and failed the TLS
\* handshake: the call failed there, the second address never attempted
C33_Witness ==
    /\ IsTcp /\ client[1].tls
    /\ Len(client[1].addrs) = 2
    /\ conn.attempts = <<[at |-> 1, ok |-> TRUE]>>
    /\ Done /\ Result = Err("Io", "tls handshake", 1)

\* C29: an init on an IP literal never calls block_resolve, and the client it
\* builds holds the one address (that IP, opt.port); block_resolve is called at
\* most once by an init, only for an address that is no IP literal, and it is
\* called for every such address unless the init failed on its options first.
C29_IpLiteralSkipsResolver ==
    initLog.opt # None =>
        LET opt == initLog.opt[1] IN
        /\ opt.addr.lit =>
              /\ initLog.resolves = 0 /\ initLog.resolved = NoResolve
              /\ client # None => client[1].addrs = <<SocketAddr(opt.addr.ip, opt.port)>>
        /\ initLog.resolves \in {0, 1}
        /\ initLog.resolves = 1 => ~opt.addr.lit
        /\ (~opt.addr.lit /\ initLog.resolves = 0) =>
              \E what \in {"invalid server name", "invalid uri"} :
                  initRes = Some(Err("Option", what, 0))

\* a WebSocketClient was built on an IP literal without a call of block_resolve
C29_Witness ==
    /\ initLog.opt # None /\ initLog.opt[1].addr.lit
    /\ initLog.kind = "Ws" /\ initLog.resolves = 0
    /\ client # None /\ Len(client[1].addrs) = 1

\* C21: a connect on a client whose address list is empty attempts no TCP
\* connection and fails with the EmptyResolved resolve error, and connect
\* fails with EmptyResolved in no other case.
C21_EmptyListFailsWithEmptyResolved ==
    (client # None /\ Done) =>
        /\ client[1].addrs = <<>> =>
              (conn.attempts = <<>> /\ Result = Err("Dns", "EmptyResolved", 0))
        /\ Result = Err("Dns", "EmptyResolved", 0) => client[1].addrs = <<>>

\* a client that holds no address was connected
C21_Witness ==
    /\ client # None /\ client[1].addrs = <<>>
    /\ Done /\ conn.attempts = <<>>
    /\ Result = Err("Dns", "EmptyResolved", 0)

\* C20: in WebSocketClient::connect an address is attempted only after every
\* address before it was refused at TCP level; once a TCP connect succeeded the
\* call ends at that address, with the stream or, if the WebSocket or TLS
\* handshake failed, with Connect(msg); Connect(msg) is returned for nothing else.
C20_WsHandshakeFailureEndsConnect ==
    (client # None /\ client[1].kind = "Ws") =>
        /\ \A j \in 1..(NAttempts - 1) : ~conn.attempts[j].ok
        /\ (Done /\ NAttempts > 0 /\ conn.attempts[NAttempts].ok) =>
              Result \in {Ok("Ws", NAttempts), Err("Connect", "handshake", NAttempts)}
        /\ (Done /\ Result.tag = "Connect") =>
              (NAttempts > 0 /\ conn.attempts[NAttempts].ok /\ Result.at = NAttempts)

\* the handshake failed on the first of two addresses: the second was not tried
C20_Witness ==
    /\ client # None /\ client[1].kind = "Ws"
    /\ Len(client[1].addrs) = 2
    /\ conn.attempts = <<[at |-> 1, ok |-> TRUE]>>
    /\ Done /\ Result = Err("Connect", "handshake", 1)

(***************************************************************************)
(* Properties of TcpServer::serve.                                         *)
(***************************************************************************)
ConnIds == 1..(MaxConns + 1)
Waiting(id) == \E i \in 1..Len(backlog) : backlog[i].id = id
Handed(id) == \E i \in 1..Len(serve.spawned) : serve.spawned[i].id = id
Returned == serve.state = "returned"

\* no connection ahead of `id` in the listener, nor the one in its handshake,
\* is one whose peer never finishes the handshake
NoHangAhead(id) ==
    /\ serve.cur # None => serve.cur[1].tls # "hang"
    /\ \A i \in 1..Len(backlog) : backlog[i].id < id => backlog[i].tls # "hang"

FailedHandshake == serve.state = "handshake" /\ serve.cur[1].tls = "fail"

\* C8: on a TLS server, the step that ends a failed handshake takes serve back
\* to accept, spawning nothing and returning nothing; and a waiting connection
\* with a proper handshake is eventually handed to the callback whatever
\* failing connections are ahead of it (unless a peer ahead never finishes its
\* handshake, or accept fails with a closed-kind error and serve returns).
C8_TlsFailureDoesNotStopServe ==
    /\ [][(FailedHandshake /\ serve' # serve) =>
            (serve'.state = "accept" /\ serve'.result = None
                 /\ serve'.spawned = serve.spawned)]_vars
    /\ \A id \in ConnIds :
          (Waiting(id) /\ server[1].tls_acceptor /\ NoHangAhead(id)
               /\ \E i \in 1..Len(backlog) : backlog[i].id = id /\ backlog[i].tls = "ok")
            ~> (Handed(id) \/ Returned)

\* two connections failed their handshakes, the third was handed to the callback
C8_Witness ==
    /\ server # None /\ server[1].tls_acceptor
    /\ nconns = 3
    /\ serve.spawned = <<[id |-> 3, stream |-> "Tls", addr |-> Some(3)]>>
    /\ serve.state = "accept"

\* C9: once bound, serve has returned exactly when the last accept failed with
\* an error of kind UnexpectedEof, ConnectionAborted, NotConnected, BrokenPipe
\* or ConnectionReset, and it returned that error; after any other accept error
\* the loop is accepting again.
C9_ServeEndsOnClosedAcceptError ==
    LET closed == lastAccept.type = "err" /\
                  lastAccept.kind \in {"UnexpectedEof", "ConnectionAborted", "NotConnected",
                                       "BrokenPipe", "ConnectionReset"} IN
    /\ lastAccept.type # "none" =>
          /\ Returned <=> closed
          /\ Returned => serve.result = Some(ServerErrorIo(lastAccept.kind))
    /\ (lastAccept.type = "err" /\ ~closed) => serve.state = "accept"

\* serve returned on ConnectionReset after a connection was handed to the callback
C9_Witness ==
    /\ Returned
    /\ lastAccept = [type |-> "err", kind |-> "ConnectionReset", id |-> 0]
    /\ Len(serve.spawned) > 0

\* the step ends the handshake of the accepted connection
HandshakeEnds == serve.state = "handshake" /\ serve'.state # "handshake"

\* the step accepts a connection on a server without TLS
PlainAccept == ~server[1].tls_acceptor /\ backlog # <<>> /\ backlog' = Tail(backlog)

\* the handle call spawned for connection c
HandleOf(c) ==
    [id |-> c.id, stream |-> IF c.tls = "none" THEN "Raw" ELSE "Tls", addr |-> Some(c.id)]

\* C31: the step that ends a successful handshake, or accepts a connection on a
\* server without TLS, spawns one handle call for that connection, with its
\* stream and Some(peer_addr); every other step (a failed handshake, an accept
\* error, an accept that starts a handshake) spawns nothing; and no connection
\* has two handle calls.
C31_HandleOncePerServedConnection ==
    /\ [][IF HandshakeEnds /\ serve.cur[1].tls = "ok"
            THEN serve'.spawned = Append(serve.spawned, HandleOf(serve.cur[1]))
            ELSE IF server # None /\ PlainAccept
            THEN serve'.spawned = Append(serve.spawned, HandleOf(Head(backlog)))
            ELSE serve'.spawned = serve.spawned]_vars
    /\ [](\A i, j \in 1..Len(serve.spawned) :
             serve.spawned[i].id = serve.spawned[j].id => i = j)

\* on a TLS server the first connection was handed to the callback, the second
\* failed its handshake, and then an accept failed: one handle call
C31_Witness ==
    /\ server # None /\ server[1].tls_acceptor
    /\ nconns = 2 /\ backlog = <<>> /\ serve.cur = None
    /\ lastAccept.type = "err"
    /\ serve.spawned = <<[id |-> 1, stream |-> "Tls", addr |-> Some(1)]>>

\* the accepted connection is in its TLS handshake
InHandshake == serve.state = "handshake" /\ serve.cur # None

\* C34: on a TLS server the step that accepts a connection puts serve into the
\* handshake of that connection, spawning nothing; while serve is there no
\* accept returns, and the connections that arrived later wait in the listener
\* with no handle call; and when the peer never ends its handshake serve stays
\* there for ever.
C34_HandshakeBlocksAcceptLoop ==
    /\ [][(server # None /\ server[1].tls_acceptor /\ backlog # <<>>
             /\ backlog' = Tail(backlog)) =>
            /\ serve'.state = "handshake" /\ serve'.cur = Some(Head(backlog))
            /\ serve'.spawned = serve.spawned]_vars
    /\ [][InHandshake =>
            /\ lastAccept' = lastAccept
            /\ backlog' = backlog \/ (Len(backlog') = Len(backlog) + 1
                                        /\ Take(backlog', Len(backlog)) = backlog)]_vars
    /\ [][(InHandshake /\ serve.cur[1].tls = "hang") => serve' = serve]_vars
    /\ [](InHandshake =>
            /\ \A i \in 1..Len(serve.spawned) : serve.spawned[i].id < serve.cur[1].id
            /\ \A i \in 1..Len(backlog) : backlog[i].id > serve.cur[1].id)

\* the first peer never ends its handshake; two peers with proper handshakes
\* connected after it and wait, and nothing was handed to the callback
C34_Witness ==
    /\ InHandshake
    /\ serve.cur[1] = [id |-> 1, tls |-> "hang"]
    /\ Len(backlog) = 2 /\ backlog[1].tls = "ok" /\ backlog[2].tls = "ok"
    /\ serve.spawned = <<>> /\ nconns = MaxConns

\* C35: serve has returned exactly when it holds a result, and the result is
\* an error: the bind error, with nothing accepted, or the accept error of one
\* of the five closed kinds that the last accept failed with; the step in which
\* serve returns is the bind or such an accept, and every other step of a
\* serve that runs leaves it in the loop (accepting or in a handshake).
C35_ServeReturnsOnlyErrors ==
    /\ [](Returned <=> serve.result # None)
    /\ [](Returned =>
            /\ serve.result[1].tag = "Io"
            /\ \/ /\ lastAccept.type = "none" /\ serve.spawned = <<>> /\ nconns = 0
                  /\ serve.result[1].kind = "AddrInUse"
               \/ /\ lastAccept.type = "err"
                  /\ serve.result[1].kind = lastAccept.kind
                  /\ lastAccept.kind \in {"UnexpectedEof", "ConnectionAborted", "NotConnected",
                                          "BrokenPipe", "ConnectionReset"})
    /\ [][(serve.state \in {"accept", "handshake"} /\ serve'.state # serve.state) =>
            \/ serve'.state \in {"accept", "handshake"}
            \/ /\ serve.state = "accept" /\ serve'.state = "returned"
               /\ lastAccept'.type = "err"]_vars

\* the bind failed: serve returned its error before any accept
C35_Witness ==
    /\ Returned
    /\ serve.result = Some(ServerErrorIo("AddrInUse"))
    /\ lastAccept.type = "none" /\ nconns = 0

\* C23: a step that spawns handlers spawns one, behind those spawned before,
\* for the connection accepted last; so the handlers stand in the order in which
\* the listener gave out their connections (the order of the ids), a connection
\* whose handshake failed having none.  What the tasks do is not constrained.
C23_HandlersSpawnedInAcceptOrder ==
    /\ [][serve'.spawned # serve.spawned =>
            /\ Len(serve'.spawned) = Len(serve.spawned) + 1
            /\ Take(serve'.spawned, Len(serve.spawned)) = serve.spawned
            /\ lastAccept'.type = "conn"
            /\ serve'.spawned[Len(serve'.spawned)].id = lastAccept'.id]_vars
    /\ [](\A i, j \in 1..Len(serve.spawned) :
             i < j => serve.spawned[i].id < serve.spawned[j].id)

\* on a TLS server the first and third connections were handed over in that
\* order, the second failed its handshake; the later handler finished while the
\* earlier one is still running
C23_Witness ==
    /\ server # None /\ server[1].tls_acceptor
    /\ Len(serve.spawned) = 2
    /\ serve.spawned[1].id = 1 /\ serve.spawned[2].id = 3
    /\ tasks = <<"running", "done">>

\* C24: once serve is cancelled nothing is accepted or spawned any more (the
\* waiting connections stay unaccepted); the cancelling step leaves every
\* handler task as it was, and afterwards a task changes only by ending on its
\* own: the tasks that had ended at the cancellation keep their outcome.
C24_CancelStopsAcceptNotHandlers ==
    /\ [][serve.state = "cancelled" =>
            (serve' = serve /\ lastAccept' = lastAccept /\ backlog' = backlog)]_vars
    /\ [][(serve.state # "cancelled" /\ serve'.state = "cancelled") =>
            (tasks' = tasks /\ serve'.spawned = serve.spawned)]_vars
    /\ [][serve.state = "cancelled" =>
            \A i \in 1..Len(tasks) : tasks'[i] # tasks[i] => tasks[i] = "running"]_vars
    /\ [](serve.state = "cancelled" =>
            /\ Len(tasks) = Len(serve.detached)
            /\ \A i \in 1..Len(tasks) :
                  serve.detached[i] # "running" => tasks[i] = serve.detached[i])

\* serve was cancelled with two handlers running and a connection waiting;
\* both handlers have since run to completion and the connection still waits
C24_Witness ==
    /\ serve.state = "cancelled"
    /\ serve.detached = <<"running", "running">>
    /\ tasks = <<"done", "done">>
    /\ backlog # <<>>

\* a handler task that has not completed, or failed, or was dropped
Unfinished == \E i \in 1..Len(tasks) : tasks[i] \in {"running", "failed", "dropped"}

\* C10: the step that hands a connection to the callback leaves serve in
\* accept, whatever the handler does; and with handlers that never complete,
\* fail or are dropped, a waiting connection is still eventually handed to the
\* callback (unless a peer ahead never finishes its TLS handshake, its own
\* handshake fails, or serve returns).
C10_AcceptLoopNeverWaitsForCallback ==
    /\ [][serve'.spawned # serve.spawned => serve'.state = "accept"]_vars
    /\ \A id \in ConnIds :
          (Waiting(id) /\ Unfinished /\ NoHangAhead(id)
               /\ \E i \in 1..Len(backlog) : backlog[i].id = id /\ backlog[i].tls \in {"ok", "none"})
            ~> (Handed(id) \/ Returned)

\* three connections handed to the callback on a server without TLS: the first
\* handler never completed, the second failed
C10_Witness ==
    /\ server # None /\ ~server[1].tls_acceptor
    /\ Len(serve.spawned) = 3
    /\ tasks = <<"running", "failed", "running">>
    /\ serve.state = "accept"

(***************************************************************************)
(* Properties of sort_resolved.                                            *)
(***************************************************************************)
Families == {"v4", "v6"}
Family(a) == a.ip.fam

\* the families a strategy lets through
AllowedFamilies(strategy) ==
    CASE strategy = "Ipv4Only" -> {"v4"}
      [] strategy = "Ipv6Only" -> {"v6"}
      [] OTHER -> {"v4", "v6"}

\* the subsequence of the addresses of family f
RECURSIVE OfFamily(_, _)
OfFamily(seq, f) ==
    IF seq = <<>> THEN <<>>
    ELSE IF Family(Head(seq)) = f THEN <<Head(seq)>> \o OfFamily(Tail(seq), f)
    ELSE OfFamily(Tail(seq), f)

\* how often address a occurs in seq
Occurrences(seq, a) == Cardinality({i \in 1..Len(seq) : seq[i] = a})

SortReturned == sortCall.state = "returned"

\* C11: sort_resolved(X, s) holds every address of X of an allowed family as
\* often as X does and no other address, and within each family its addresses
\* are in the order they have in X.
C11_SortKeepsAllowedInFamilyOrder ==
    SortReturned =>
        /\ \A a \in SortAddrs :
              Occurrences(sortCall.sorted, a) =
                 IF Family(a) \in AllowedFamilies(sortCall.strategy)
                 THEN Occurrences(sortCall.result, a) ELSE 0
        /\ \A f \in Families :
              OfFamily(sortCall.sorted, f) =
                 IF f \in AllowedFamilies(sortCall.strategy)
                 THEN OfFamily(sortCall.result, f) ELSE <<>>

\* [v6 a, v4, v6 a] under Ipv6Only: the v4 address is gone, the repeated v6 one stays twice
C11_Witness ==
    /\ SortReturned /\ sortCall.strategy = "Ipv6Only"
    /\ Len(sortCall.result) = 3 /\ Len(sortCall.sorted) = 2
    /\ Family(sortCall.result[2]) = "v4"
    /\ sortCall.sorted[1] = sortCall.sorted[2]

\* no address of family f comes after an address of the other family
FamilyFirst(seq, f) ==
    \A i, j \in 1..Len(seq) : (i < j /\ Family(seq[j]) = f) => Family(seq[i]) = f

\* C12: under Ipv4ThenIpv6 every v4 address comes before any v6 address, under
\* Ipv6ThenIpv4 every v6 address before any v4 address, and under Ipv4AndIpv6
\* the result is the input.
C12_SortPutsPreferredFamilyFirst ==
    SortReturned =>
        /\ sortCall.strategy = "Ipv4ThenIpv6" => FamilyFirst(sortCall.sorted, "v4")
        /\ sortCall.strategy = "Ipv6ThenIpv4" => FamilyFirst(sortCall.sorted, "v6")
        /\ sortCall.strategy = "Ipv4AndIpv6" => sortCall.sorted = sortCall.result

\* [v4, v6] under Ipv6ThenIpv4 comes out as [v6, v4]
C12_Witness ==
    /\ SortReturned /\ sortCall.strategy = "Ipv6ThenIpv4"
    /\ Len(sortCall.result) = 2
    /\ Family(sortCall.result[1]) = "v4" /\ Family(sortCall.result[2]) = "v6"
    /\ sortCall.sorted = <<sortCall.result[2], sortCall.result[1]>>

(***************************************************************************)
(* Properties of resolve and block_resolve.                                *)
(***************************************************************************)
RReturned == rcall.state = "returned"

\* C13: a resolve whose lookup succeeded but whose addresses were all
\* filtered out by the strategy reports EmptyResolved, never Ok with no address.
C13_ResolveReportsEmptyResolved ==
    (RReturned /\ rcall.lookup.res = "ok") =>
        /\ rcall.result # [res |-> "ok", addrs |-> <<>>]
        /\ sort_resolved(WithPort(rcall.lookup.ips, rcall.port), rcall.resolver.strategy) = <<>>
              => rcall.result.res = "EmptyResolved"

\* a resolve on a Default resolver whose lookup_host was awaited
DefaultLookup == rcall.resolver.variant = "Default" /\ rcall.task = "ran"

\* C28: a resolve on the Default resolver that awaits its lookup returns; when
\* the timeout elapsed before the lookup completed it returns the Timeout error
\* with no address, whatever the lookup had gathered; when the lookup completed
\* first it returns sort_resolved of the addresses looked up, under the
\* resolver's strategy, or the lookup's I/O error.
C28_DefaultLookupBoundedByTimeout ==
    /\ [](RReturned /\ DefaultLookup =>
            /\ rcall.lookup.res = "timeout" =>
                  rcall.result = [res |-> "Timeout", addrs |-> <<>>]
            /\ rcall.lookup.res = "ok" =>
                  rcall.result =
                      [res |-> "ok",
                       addrs |-> sort_resolved(WithPort(rcall.lookup.ips, rcall.port),
                                               rcall.resolver.strategy)]
            /\ rcall.lookup.res = "io" => rcall.result = [res |-> "Io", addrs |-> <<>>])
    /\ (rcall.resolver.variant = "Default" /\ rcall.state = "awaiting") ~> RReturned

\* the timeout overtook a lookup that had addresses, and resolve returned Timeout
C28_Witness ==
    /\ RReturned /\ DefaultLookup
    /\ rcall.api = "resolve"
    /\ rcall.lookup.res = "timeout" /\ Len(rcall.lookup.ips) = MaxAddrs
    /\ rcall.result.res = "Timeout"

\* a block_resolve call from a thread of one of the contexts
BlockCallFrom(ctxs) == rcall.api = "block_resolve" /\ rcall.ctx \in ctxs

\* what block_resolve returned is what resolve gives for the lookup that ran
SameAsResolve == rcall.result = resolve(rcall.resolver, rcall.port, rcall.lookup)

\* C14: block_resolve called on a worker thread of a multi-threaded scheduler
\* never panics and always returns, for every resolver variant and whatever the
\* number of workers and of other workers that are running.
C14_BlockResolveOnWorkerReturns ==
    /\ [](BlockCallFrom({"worker"}) => rcall.state # "panicked")
    /\ (BlockCallFrom({"worker"}) /\ rcall.state = "called") ~> RReturned

\* the only worker called block_resolve on a System resolver, and the spawned
\* lookup ran on the core it handed off
C14_Witness ==
    /\ BlockCallFrom({"worker"}) /\ RReturned
    /\ rcall.resolver.variant = "System"
    /\ rcall.others = 0 /\ rcall.core = "handed"
    /\ rcall.task = "ran" /\ rcall.result.res = "ok" /\ rcall.result.addrs # <<>>

\* C15: called where no multi-threaded scheduler handle exists, the thread of a
\* current-thread scheduler included, block_resolve does not panic and drives
\* resolve on a freshly built current-thread runtime.
C15_BlockResolveSwitchesToFreshRuntime ==
    BlockCallFrom({"ct", "pool_ct", "none"}) =>
        /\ rcall.state # "panicked"
        /\ rcall.rt # "none" => rcall.rt = "fresh"

\* C16: block_resolve called on a thread that is not a scheduler worker never
\* panics and always returns; what it returns is what resolve returns for the
\* same lookup, or Initialize if no runtime could be built; a spawned lookup
\* has been run by then.
C16_BlockResolveOffWorkerCompletes ==
    /\ [](BlockCallFrom({"pool_mt", "pool_ct", "none"}) =>
            /\ rcall.state # "panicked"
            /\ RReturned =>
                  \/ rcall.task = "ran" /\ SameAsResolve
                  \/ rcall.task = "none" /\ rcall.rt = "none"
                       /\ rcall.result = [res |-> "Initialize", addrs |-> <<>>])
    /\ (BlockCallFrom({"pool_mt", "pool_ct", "none"}) /\ rcall.state = "called") ~> RReturned

\* as in test_dns_resolve: a Custom resolver on a blocking-pool thread of a
\* current-thread runtime, the spawned lookup ran and gave addresses
C16_Witness ==
    /\ BlockCallFrom({"pool_ct"}) /\ RReturned
    /\ rcall.resolver.variant = "Custom" /\ rcall.rt = "current"
    /\ rcall.task = "ran" /\ rcall.result.res = "ok" /\ rcall.result.addrs # <<>>

(***************************************************************************)
(* Properties of the TransportClient facade and of the Empty stream.       *)
(***************************************************************************)
\* C17: connect on an Empty client succeeds, and of the operations polled on
\* its stream none returns an error, every read that completes reads 0 bytes,
\* every write that completes reports the length of its buffer, and nothing
\* written is ever read back.
C17_EmptyStreamEofAndSink ==
    /\ (IsEmptyClient /\ estream # None) => estream[1] = Ok("Empty", 0)
    /\ \A i \in 1..Len(ehist) :
          /\ ehist[i].ok
          /\ (ehist[i].op = "read" /\ ehist[i].poll = "Ready") => ehist[i].n = 0
          /\ (ehist[i].op = "write" /\ ehist[i].poll = "Ready") => ehist[i].n = ehist[i].len

\* a write of two bytes reported 2, then a read into a buffer of two read nothing,
\* then a flush completed
C17_Witness ==
    /\ IsEmptyClient /\ estream = Some(Ok("Empty", 0))
    /\ Len(ehist) = 3
    /\ ehist[1] = OpResult("write", 2, "Ready", 2)
    /\ ehist[2] = OpResult("read", 2, "Ready", 0)
    /\ ehist[3] = OpResult("flush", 0, "Ready", 0)

\* the option has an address list (Tcp, Ws) and it resolved to at least one address
ResolvedNonEmpty == tlog.addrs.res = "ok" /\ tlog.addrs.addrs # <<>>

\* the client init returned has the name of the option's variant
NamedAsOption ==
    /\ tlog.res.ok /\ tclient # None
    /\ name(tclient[1]) \in {"Empty", "Tcp", "Ws"}
    /\ name(tclient[1]) = tlog.variant

\* C18, as stated: for every option whose resolved address list is non-empty
\* (and for the Empty option) init succeeds and name() is the option's variant.
C18_InitSucceedsWhenResolved ==
    (tlog.called /\ (tlog.variant = "Empty" \/ ResolvedNonEmpty)) => NamedAsOption

\* C18, amended: init succeeds and name() is the option's variant for the Empty
\* option, for a Tcp option with a non-empty resolved list whose TLS server name
\* (if TLS is configured) is a valid name, and for a Ws option with a non-empty
\* resolved list whose URI can be built; whenever init succeeds name() is the
\* option's variant.
C18_InitSucceedsWhenResolvedAndValid ==
    tlog.called =>
        /\ tlog.variant = "Empty" => NamedAsOption
        /\ (tlog.variant = "Tcp" /\ ResolvedNonEmpty /\ (tlog.tls => tlog.name_ok))
              => NamedAsOption
        /\ (tlog.variant = "Ws" /\ ResolvedNonEmpty /\ tlog.uri_ok) => NamedAsOption
        /\ tlog.res.ok => NamedAsOption

\* a Ws option whose host resolved to two addresses gave a client named "Ws"
C18_Witness ==
    /\ tlog.called /\ tlog.variant = "Ws" /\ tlog.host = "host.example"
    /\ Len(tlog.addrs.addrs) = 2
    /\ tclient # None /\ name(tclient[1]) = "Ws"

\* C19: a TLS-configured client, TCP or WebSocket, uses the option's explicit
\* server_name for the handshake if it is non-empty and the dial host otherwise.
C19_TlsServerNameSelection ==
    (tclient # None /\ tclient[1].variant # "Empty" /\ tlog.tls) =>
        tclient[1].cli[1].server_name =
            (IF tlog.explicit # "" THEN tlog.explicit ELSE tlog.host)

=============================================================================
